---- MODULE Spec2Model ----
(***************************************************************************)
(* Model of the lgpod reconciliation agent (flo405/linux-gpo).             *)
(*                                                                         *)
(* Strings of the program are modelled as sequences of tokens: a token is  *)
(* an indivisible run of characters, chosen so that no token of the model  *)
(* is a prefix of another one.  Concatenation is \o, strings.HasPrefix is  *)
(* the prefix test on sequences.  Artifact bytes are token sequences too.  *)
(***************************************************************************)
EXTENDS Integers, Sequences, FiniteSets, TLC

(***************************************************************************)
(* Bounds of the model.                                                    *)
(***************************************************************************)
MaxClock == 1
MaxFaults == 1
MaxCalls == 4

(***************************************************************************)
(* Generic helpers.                                                        *)
(***************************************************************************)
Range(s) == {s[i] : i \in 1..Len(s)}

\* strings.HasPrefix(s, pre)
HasPrefix(s, pre) == /\ Len(pre) <= Len(s)
                     /\ SubSeq(s, 1, Len(pre)) = pre

\* strings.Contains on the token level
ContainsTok(s, t) == \E i \in 1..Len(s) : s[i] = t

(***************************************************************************)
(* Paths.                                                                  *)
(***************************************************************************)
PolkitPrefix == <<"/etc/polkit-1/rules.d/", "60-lgpo-">>
DconfPrefix == <<"/etc/dconf/db/local.d/", "60-lgpo-">>
LocksPrefix == <<"/etc/dconf/db/local.d/", "locks/", "60-lgpo-">>
ModprobePrefix == <<"/etc/modprobe.d/", "60-lgpo-">>
DconfDir == <<"/etc/dconf/db/local.d/">>
ModprobeDir == <<"/etc/modprobe.d/">>

\* an allow-list test that lets every path through
allowedAny(path) == TRUE

\* the allow-list test of the drift removal loop
allowed(path) == \/ HasPrefix(path, PolkitPrefix)
                 \/ HasPrefix(path, DconfPrefix)
                 \/ HasPrefix(path, LocksPrefix)
                 \/ HasPrefix(path, ModprobePrefix)

\* the allow-list test of applyAtomic
okPath(path) == \/ HasPrefix(path, PolkitPrefix)
                \/ HasPrefix(path, DconfPrefix)
                \/ HasPrefix(path, LocksPrefix)
                \/ HasPrefix(path, ModprobePrefix)

PolkitTarget(name) == PolkitPrefix \o name \o <<".rules">>
TargetPaths(name) == <<DconfPrefix \o name, LocksPrefix \o name>>
TargetPath(name) == ModprobePrefix \o name \o <<".conf">>
\* a temporary file that is the target itself
TmpInPlace(path) == path

\* tmp := it.Path + ".lgpo-tmp"
TmpOf(path) == path \o <<".lgpo-tmp">>

DconfProfilePath == <<"/etc/dconf/profile/", "user">>
DconfProfileTmp == DconfProfilePath \o <<".tmp">>
DconfProfileContent == <<"user-db:user\n", "system-db:local\n">>

ModeTmp == 384
ModeFinal == 420


(***************************************************************************)
(* Ordering of strings.  TokOrder lists the tokens that take part in a     *)
(* sort in byte order; sort.Strings compares token sequences               *)
(* lexicographically.                                                      *)
(***************************************************************************)
TokOrder == <<"-", "_", "a", "b", "foo", "idle-delay", "org/gnome/desktop/session", "storage", "usb">>
TokRank(t) == CHOOSE i \in 1..Len(TokOrder) : TokOrder[i] = t

RECURSIVE StrLess(_, _)
StrLess(a, b) ==
    IF b = <<>> THEN FALSE
    ELSE IF a = <<>> THEN TRUE
    ELSE IF Head(a) = Head(b) THEN StrLess(Tail(a), Tail(b))
    ELSE TokRank(Head(a)) < TokRank(Head(b))

\* sort.Strings
SortStrings(s) == SortSeq(s, StrLess)

RECURSIVE Flatten(_)
Flatten(ss) == IF ss = <<>> THEN <<>> ELSE Head(ss) \o Flatten(Tail(ss))

\* strings.ReplaceAll(s, old, new) for single characters that are tokens
ReplaceAll(s, old, new) == [i \in 1..Len(s) |-> IF s[i] = old THEN new ELSE s[i]]

(***************************************************************************)
(* Policy documents.  metadata.name, module names and the other strings of *)
(* a policy are token sequences.                                           *)
(***************************************************************************)
NameChars == {"foo", "old", "a", "b", ".", "..", "-", "_", ".lgpo-tmp", ".rules", ".conf"}
ModuleAlnum == {"usb", "storage", "a", "b"}
ModuleChars == ModuleAlnum \cup {"-", "_"}

\* reName / nameRe: ^[a-zA-Z0-9._-]+$
reNameMatch(name) == /\ Len(name) > 0
                     /\ \A i \in 1..Len(name) : name[i] \in NameChars

\* reModule: ^[a-z0-9]([-_a-z0-9]*[a-z0-9])?$
reModuleMatch(m) == /\ Len(m) > 0
                    /\ \A i \in 1..Len(m) : m[i] \in ModuleChars
                    /\ m[1] \in ModuleAlnum
                    /\ m[Len(m)] \in ModuleAlnum

NoSel == [facts |-> <<>>, tags |-> <<>>, hostnameRegex |-> ""]

NoSpec == [rules |-> <<>>, settings |-> <<>>, locks |-> <<>>, blacklist |-> <<>>,
           installFalse |-> FALSE, updateInitramfs |-> FALSE, instantApply |-> FALSE]

MkPolicy(kind, name, sel, spec) == [kind |-> kind, name |-> name, sel |-> sel, spec |-> spec]

(***************************************************************************)
(* Go maps are functions; a missing key reads as the zero value.           *)
(***************************************************************************)
MapGet(m, k) == IF k \in DOMAIN m THEN m[k] ELSE ""

RECURSIVE SortedSeqOf(_)
SortedSeqOf(S) ==
    IF S = {} THEN <<>>
    ELSE LET lo == CHOOSE x \in S : \A y \in S \ {x} : StrLess(x, y)
         IN <<lo>> \o SortedSeqOf(S \ {lo})

(***************************************************************************)
(* selector.Sel.Match                                                      *)
(***************************************************************************)
\* the characters of the strings that reach the regexp package: host names
\* and hostnameRegex values
Chars(str) ==
    CASE str = "" -> <<>>
      [] str = "ws" -> <<"ws">>
      [] str = "ws1" -> <<"ws", "1">>
      [] str = "news1" -> <<"ne", "ws", "1">>
      [] str = "(" -> <<"(">>
HostNames == {"", "ws1", "news1"}

\* regexp.Compile succeeds: the patterns of the model are literals, and "("
\* is the one that does not parse
Compiles(re) == "(" \notin Range(Chars(re))

\* Regexp.MatchString: the literal occurs somewhere in the string
MatchString(re, str) ==
    LET r == Chars(re)
        t == Chars(str)
    IN \E i \in 1..(Len(t) + 1) :
          i + Len(r) - 1 <= Len(t) /\ SubSeq(t, i, i + Len(r) - 1) = r

\* the host names a hostnameRegex of the model matches
RegexLang(re) == {h \in HostNames : Compiles(re) /\ MatchString(re, h)}

\* regexp.MustCompile panics on a pattern that does not compile
MatchPanics(sel) == sel.hostnameRegex # "" /\ ~Compiles(sel.hostnameRegex)

TagStr(v) == [shape |-> "string", str |-> v, items |-> <<>>]
TagList(l) == [shape |-> "list", str |-> "", items |-> l]

Match(sel, ctx) ==
    /\ (sel.hostnameRegex # "" => MapGet(ctx.facts, "hostname") \in RegexLang(sel.hostnameRegex))
    /\ \A k \in DOMAIN sel.facts : MapGet(ctx.facts, k) = sel.facts[k]
    /\ \A k \in DOMAIN sel.tags :
          LET v == sel.tags[k]
          IN CASE v.shape = "string" -> MapGet(ctx.tags, k) = v.str
               [] v.shape = "list" -> \E i \in 1..Len(v.items) : MapGet(ctx.tags, k) = v.items[i]
               [] OTHER -> FALSE

\* what a call of Match comes to: a boolean, or the panic of MustCompile
MatchOutcome(sel, ctx) ==
    IF MatchPanics(sel) THEN "panic"
    ELSE IF Match(sel, ctx) THEN "true" ELSE "false"

(***************************************************************************)
(* polkit: Validate, Render                                                *)
(***************************************************************************)
ActionChars == {"org", "freedesktop", "udisks2", ".", "-", "_"}
UserChars == {"wheel", "alice", "-", "_"}
ForbiddenTokens == {"eval(", "Function(", "require(", "import("}

reActionMatch(a) == Len(a) > 0 /\ \A i \in 1..Len(a) : a[i] \in ActionChars
reUserMatch(u) == Len(u) > 0 /\ \A i \in 1..Len(u) : u[i] \in UserChars /\ u[1] \notin {"-"}

PolkitRuleValid(r) ==
    /\ reNameMatch(r.name)
    /\ Len(r.matches) > 0
    /\ \A i \in 1..Len(r.matches) :
          LET m == r.matches[i]
          IN /\ ~(m.actionID = <<>> /\ m.actionPrefix = <<>>)
             /\ (m.actionID # <<>> => reActionMatch(m.actionID))
             /\ (m.actionPrefix # <<>> => reActionMatch(m.actionPrefix))
    /\ (r.subject.group # <<>> => reUserMatch(r.subject.group))
    /\ (r.subject.user # <<>> => reUserMatch(r.subject.user))

PolkitValidate(p) ==
    /\ p.kind = "PolkitPolicy"
    /\ reNameMatch(p.name)
    /\ Len(p.spec.rules) > 0
    /\ \A i \in 1..Len(p.spec.rules) : PolkitRuleValid(p.spec.rules[i])

ResultJS(r) == IF r \in {"YES", "NO", "AUTH_ADMIN", "AUTH_ADMIN_KEEP"}
               THEN "polkit.Result." \o r ELSE "polkit.Result.NO"

\* jsString: the tokens of the model are printable ASCII without quote or backslash
jsString(s) == <<"\"">> \o s \o <<"\"">>
jsComment(s) == SelectSeq(s, LAMBDA t : t \notin {"*", "/"})

matchCond(m) == IF m.actionID # <<>>
                THEN <<"action.id === ">> \o jsString(m.actionID)
                ELSE <<"action.id.indexOf(">> \o jsString(m.actionPrefix) \o <<") === 0">>

subjectCond(s) ==
    LET act == IF s.active = "nil" THEN <<>>
               ELSE IF s.active = "true" THEN << <<"isActive()">> >> ELSE << <<"!isActive()">> >>
        grp == IF s.group # <<>> THEN << <<"inGroup(">> \o jsString(s.group) \o <<")">> >> ELSE <<>>
        usr == IF s.user # <<>> THEN << <<"isUser(">> \o jsString(s.user) \o <<")">> >> ELSE <<>>
        parts == act \o grp \o usr
        joined == Flatten([i \in 1..Len(parts) |->
                     IF i = 1 THEN parts[i] ELSE <<" && ">> \o parts[i]])
    IN IF parts = <<>> THEN <<>> ELSE <<" && (">> \o joined \o <<")">>

unitCond(prefix) == IF prefix = <<>> THEN <<>>
                    ELSE <<" && unitStartsWith(">> \o jsString(prefix) \o <<")">>

\* a second pass that emits a clause for every match
fallsThroughAlways(m) == TRUE

\* if m.ActionPrefix != "" in the second pass of writeRule
fallsThrough(m) == m.actionPrefix # <<>>

writeRule(r) ==
    LET primary == Flatten([i \in 1..Len(r.matches) |->
                      <<"  if (">> \o matchCond(r.matches[i]) \o subjectCond(r.subject)
                        \o unitCond(r.unitPrefix) \o <<") return ", ResultJS(r.result), ";\n">>])
        fall == IF r.defaultResult = "nil" THEN <<>>
                ELSE Flatten([i \in 1..Len(r.matches) |->
                        IF fallsThrough(r.matches[i])
                        THEN <<"  if (action.id.indexOf(">> \o jsString(r.matches[i].actionPrefix)
                               \o <<") === 0) return ", ResultJS(r.defaultResult), ";\n">>
                        ELSE <<>>])
    IN <<"\n  // ---- ">> \o jsComment(r.name) \o <<" ----\n">> \o primary \o fall

\* the text Render has built when it reaches the check of the forbidden tokens
\* the rules in the order the policy lists them
rulesAsListed(rs) == rs

\* sort.Slice(rules, ...) by rule name, on a copy of p.Spec.Rules
sortRules(rs) == SortSeq(rs, LAMBDA a, b : StrLess(a.name, b.name))

PolkitJS(p) ==
    LET rules == sortRules(p.spec.rules)
    IN <<"polkit.addRule(function(action, subject) {...\n">>
       \o Flatten([i \in 1..Len(rules) |-> writeRule(rules[i])])
       \o <<"\n  // fallthrough: not handled\n});\n">>

\* a check that lets every text through
ForbiddenNever(js) == FALSE

\* strings.Contains(js, bad) for one of the four tokens
Forbidden(js) == \E t \in ForbiddenTokens : ContainsTok(js, t)

PolkitRender(p) ==
    IF ~PolkitValidate(p) THEN [err |-> TRUE, data |-> <<>>]
    ELSE IF Forbidden(PolkitJS(p)) THEN [err |-> TRUE, data |-> <<>>]
    ELSE [err |-> FALSE, data |-> PolkitJS(p)]

(***************************************************************************)
(* dconf: Validate, Render                                                 *)
(***************************************************************************)
DconfValidate(p) ==
    /\ p.kind = "DconfPolicy"
    /\ p.name # <<>>
    /\ ~(DOMAIN p.spec.settings = {} /\ Len(p.spec.locks) = 0)

DconfRender(p) ==
    IF ~DconfValidate(p) THEN [err |-> TRUE, settings |-> <<>>, locks |-> <<>>]
    ELSE LET keys == SortedSeqOf(DOMAIN p.spec.settings)
             section(group) ==
                 LET inner == p.spec.settings[group]
                     ikeys == SortedSeqOf(DOMAIN inner)
                 IN <<"[">> \o group \o <<"]\n">>
                    \o Flatten([i \in 1..Len(ikeys) |-> ikeys[i] \o <<"=", inner[ikeys[i]], "\n">>])
                    \o <<"\n">>
         IN [err |-> FALSE,
             settings |-> Flatten([i \in 1..Len(keys) |-> section(keys[i])]),
             locks |-> Flatten([i \in 1..Len(p.spec.locks) |-> <<p.spec.locks[i], "\n">>])]

(***************************************************************************)
(* modprobe: Validate (canonicalising), alts, Render                       *)
(***************************************************************************)
\* strings.TrimSpace: white space is the token " "
RECURSIVE TrimLeft(_)
TrimLeft(m) == IF m # <<>> /\ Head(m) = " " THEN TrimLeft(Tail(m)) ELSE m
RECURSIVE TrimRight(_)
TrimRight(m) == IF m # <<>> /\ m[Len(m)] = " " THEN TrimRight(SubSeq(m, 1, Len(m) - 1)) ELSE m
TrimSpace(m) == TrimRight(TrimLeft(m))

\* only the underscore form of a name
altsUnderscore(m) == <<ReplaceAll(m, "-", "_")>>

alts(m) ==
    LET u == ReplaceAll(m, "-", "_")
        h == ReplaceAll(m, "_", "-")
    IN IF u = h THEN <<u>> ELSE IF StrLess(u, h) THEN <<u, h>> ELSE <<h, u>>

RECURSIVE Dedupe(_, _)
Dedupe(s, seen) ==
    IF s = <<>> THEN <<>>
    ELSE IF Head(s) \in seen THEN Dedupe(Tail(s), seen)
    ELSE <<Head(s)>> \o Dedupe(Tail(s), seen \cup {Head(s)})

\* Validate rewrites p.Spec.Blacklist; norm is the rewritten list
ModprobeValidate(p) ==
    LET bl == [i \in 1..Len(p.spec.blacklist) |-> TrimSpace(p.spec.blacklist[i])]
        ok == /\ p.kind = "ModprobePolicy"
              /\ reNameMatch(p.name)
              /\ Len(bl) > 0
              /\ \A i \in 1..Len(bl) : reModuleMatch(bl[i])
    IN [ok |-> ok,
        norm |-> IF ok THEN SortStrings(Dedupe(Flatten([i \in 1..Len(bl) |-> alts(bl[i])]), {}))
                 ELSE <<>>]

\* time.Now().UTC().Format(time.RFC3339): one string per second of the clock
Stamps == <<"2026-01-01T00:00:00Z", "2026-01-01T00:00:01Z", "2026-01-01T00:00:02Z",
            "2026-01-01T00:00:03Z", "2026-01-01T00:00:04Z", "2026-01-01T00:00:05Z">>
RFC3339(now) == Stamps[now + 1]

ModprobeRender(p, now) ==
    LET v == ModprobeValidate(p)
        mods == SortStrings(v.norm)
    IN IF ~v.ok THEN [err |-> TRUE, data |-> <<>>, mods |-> <<>>]
       ELSE [err |-> FALSE,
             data |-> <<"# Managed by lgpo - ">> \o p.name \o <<"\n">>
                      \o <<"# Generated ", RFC3339(now), "\n\n">>
                      \o Flatten([i \in 1..Len(mods) |->
                            <<"blacklist ">> \o mods[i] \o <<"\n">>
                            \o (IF p.spec.installFalse
                                THEN <<"install ">> \o mods[i] \o <<" /bin/false\n">>
                                ELSE <<>>)]),
             mods |-> mods]

(***************************************************************************)
(* git.Ensure.  The outcomes of the external git commands are inputs:      *)
(*   kind  - the shape of cfg.Repo: "ssh", "github" (http(s)://github.com/)*)
(*           or "https" (any other URL)                                    *)
(*   https - ensureWith without the device key: "ok", "auth" (an error     *)
(*           isAuthError accepts) or "net" (any other error)               *)
(*   ssh   - ensureWith with sshEnv(): "ok" or "fail"                      *)
(*   probe - git push --dry-run: "permitted" (exit 0), "denied" (an error  *)
(*           matching deniedRe) or "unexpected" (any other error)          *)
(***************************************************************************)
RepoKinds == {"ssh", "github", "https"}
HttpsResults == {"ok", "auth", "net"}
SshResults == {"ok", "fail"}
ProbeResults == {"permitted", "denied", "unexpected"}

isSSHURL(kind) == kind = "ssh"
isAuthError(res) == res = "auth"

\* a probe that takes an accepted push for a read-only key
assertReadOnlyLax(probe) ==
    CASE probe \in {"permitted", "denied"} -> [readonly |-> TRUE, err |-> FALSE]
      [] OTHER -> [readonly |-> FALSE, err |-> TRUE]

assertReadOnly(probe) ==
    CASE probe = "permitted" -> [readonly |-> FALSE, err |-> FALSE]
      [] probe = "denied" -> [readonly |-> TRUE, err |-> FALSE]
      [] OTHER -> [readonly |-> FALSE, err |-> TRUE]

\* the tail shared by both SSH flows: the sync over SSH succeeded, now probe
AfterSSHSync(probe) ==
    LET ro == assertReadOnly(probe)
    IN IF ro.err THEN [err |-> "read-only check failed", sshSynced |-> TRUE, probed |-> probe]
       ELSE IF ~ro.readonly THEN [err |-> "write-capable", sshSynced |-> TRUE, probed |-> probe]
       ELSE [err |-> "", sshSynced |-> TRUE, probed |-> probe]

Ensure(kind, https, ssh, probe) ==
    IF isSSHURL(kind)
    THEN IF ssh # "ok" THEN [err |-> "sync", sshSynced |-> FALSE, probed |-> "none"]
         ELSE AfterSSHSync(probe)
    ELSE IF https = "ok" THEN [err |-> "", sshSynced |-> FALSE, probed |-> "none"]
    ELSE IF kind = "github"
         THEN IF ssh = "ok" THEN AfterSSHSync(probe)
              ELSE IF isAuthError(https)
                   THEN [err |-> "ssh deploy key", sshSynced |-> FALSE, probed |-> "none"]
                   ELSE [err |-> "sync", sshSynced |-> FALSE, probed |-> "none"]
         ELSE [err |-> "sync", sshSynced |-> FALSE, probed |-> "none"]

(***************************************************************************)
(* Inventory and the tag directory.  A tag file is a sequence of lines;    *)
(* the tag directory maps a key to the lines of <key>.tag, and baks to the *)
(* lines of <key>.tag.bak.                                                 *)
(***************************************************************************)
Marker == "# managed-by: lgpod-inventory"
DeviceHash == "h1"
Lower(h) == IF h = "H1" THEN "h1" ELSE h
EqualFold(a, b) == Lower(a) = Lower(b)

IsManagedTag(lines) == Len(lines) > 0 /\ lines[1] = Marker
IsCommentLine(l) == l = Marker

\* run.loadTags: first line that is neither blank nor a comment
RECURSIVE FirstValue(_)
FirstValue(lines) ==
    IF lines = <<>> THEN ""
    ELSE IF Head(lines) = "" \/ IsCommentLine(Head(lines)) THEN FirstValue(Tail(lines))
    ELSE Head(lines)

\* a directory entry that is itself a directory
DirNode == <<"(directory)">>
IsDir(node) == node = DirNode

\* *.tag entries that are directories are skipped
loadTags(dir) == [k \in {x \in DOMAIN dir.tags : ~IsDir(dir.tags[x])} |->
                     FirstValue(dir.tags[k])]

cleanManagedTagsExcept(dir, keep) ==
    LET gone == {k \in DOMAIN dir.tags :
                    k \notin keep /\ ~IsDir(dir.tags[k]) /\ IsManagedTag(dir.tags[k])}
    IN [dir EXCEPT !.tags = [k \in DOMAIN dir.tags \ gone |-> dir.tags[k]]]

\* a backup that is written only when the name <key>.tag.bak is free: one
\* way of not clobbering an earlier backup
KeepFirstBackup(dir, key) ==
    IF /\ key \in DOMAIN dir.tags /\ ~IsDir(dir.tags[key]) /\ ~IsManagedTag(dir.tags[key])
       /\ key \notin DOMAIN dir.baks
    THEN [k \in DOMAIN dir.baks \cup {key} |-> IF k = key THEN dir.tags[key] ELSE dir.baks[k]]
    ELSE dir.baks

\* the backup of writeManagedTag: best-effort, it fails on a directory named
\* <key>.tag.bak and the failure is dropped
Backup(dir, key) ==
    IF /\ key \in DOMAIN dir.tags /\ ~IsDir(dir.tags[key]) /\ ~IsManagedTag(dir.tags[key])
       /\ ~(key \in DOMAIN dir.baks /\ IsDir(dir.baks[key]))
    THEN [k \in DOMAIN dir.baks \cup {key} |-> IF k = key THEN dir.tags[key] ELSE dir.baks[k]]
    ELSE dir.baks

\* the rename onto <key>.tag fails when that name is a directory
writeManagedTag(dir, key, value) ==
    IF key \in DOMAIN dir.tags /\ IsDir(dir.tags[key])
    THEN [dir |-> dir, err |-> TRUE]
    ELSE [dir |-> [tags |-> [k \in DOMAIN dir.tags \cup {key} |->
                                IF k = key THEN <<Marker, value>> ELSE dir.tags[k]],
                   baks |-> Backup(dir, key)],
          err |-> FALSE]

\* the loop over match.Tags; it returns at the first failed write
RECURSIVE WriteTags(_, _, _, _)
WriteTags(dir, m, keys, wrote) ==
    IF keys = {} THEN [dir |-> dir, wrote |-> wrote, err |-> FALSE]
    ELSE LET k == CHOOSE x \in keys : TRUE
             w == writeManagedTag(dir, k, m[k])
         IN IF w.err THEN [dir |-> w.dir, wrote |-> wrote, err |-> TRUE]
            ELSE WriteTags(w.dir, m, keys \ {k}, wrote + 1)

\* the first inventory item whose device_pub_sha256 equals the hash, or 0
FirstMatch(items, hash) ==
    IF \E i \in 1..Len(items) : EqualFold(items[i].hash, hash)
    THEN CHOOSE i \in 1..Len(items) :
            /\ EqualFold(items[i].hash, hash)
            /\ \A j \in 1..(i - 1) : ~EqualFold(items[j].hash, hash)
    ELSE 0

\* the tag directory it leaves, the number of files written and the error
SyncInventoryTags(inv, dir) ==
    IF ~inv.readable THEN [dir |-> dir, wrote |-> 0, err |-> TRUE]
    ELSE LET i == FirstMatch(inv.items, DeviceHash)
         IN IF i = 0
            THEN [dir |-> cleanManagedTagsExcept(dir, {}), wrote |-> 0, err |-> FALSE]
            ELSE LET e == inv.items[i]
                     keys == {k \in DOMAIN e.tags : k # ""}
                     keep == keys \cup (IF e.identity # "" THEN {"identity"} ELSE {})
                     cleaned == cleanManagedTagsExcept(dir, keep)
                     written == WriteTags(cleaned, e.tags, keys, 0)
                 IN IF written.err \/ e.identity = "" THEN written
                    ELSE LET w == writeManagedTag(written.dir, "identity", e.identity)
                         IN [dir |-> w.dir,
                             wrote |-> IF w.err THEN written.wrote ELSE written.wrote + 1,
                             err |-> FALSE]

(***************************************************************************)
(* The policy files a repository of the model may hold, in the order       *)
(* filepath.WalkDir visits them (lexical by file name).                    *)
(***************************************************************************)
NameFoo == <<"foo">>
NameFooTmp == <<"foo", ".lgpo-tmp">>
NameSlash == <<"a", "/", "b">>

Rule1 == [name |-> <<"a">>,
          matches |-> << [actionID |-> <<"org", ".", "freedesktop">>, actionPrefix |-> <<>>],
                         [actionID |-> <<>>, actionPrefix |-> <<"org", ".", "udisks2">>] >>,
          subject |-> [active |-> "true", group |-> <<"wheel">>, user |-> <<>>],
          result |-> "YES", defaultResult |-> "NO", unitPrefix |-> <<>>]

PolkitSpec == [NoSpec EXCEPT !.rules = <<Rule1>>]
DconfSpec == [NoSpec EXCEPT
                 !.settings = (<<"org/gnome/desktop/session">> :> (<<"idle-delay">> :> "uint32 300")),
                 !.locks = <<"/org/gnome/desktop/session/idle-delay">>]
ModprobeSpec == [NoSpec EXCEPT !.blacklist = << <<"usb", "-", "storage">> >>,
                               !.installFalse = TRUE,
                               !.updateInitramfs = TRUE,
                               !.instantApply = TRUE]
LaptopSel == [NoSel EXCEPT !.tags = [group |-> TagStr("laptops")]]

PolicyFiles == <<
    MkPolicy("DconfPolicy", NameFooTmp, NoSel, [DconfSpec EXCEPT !.settings = <<>>]),
    MkPolicy("DconfPolicy", NameFoo, NoSel, DconfSpec),
    MkPolicy("DconfPolicy", NameSlash, NoSel, DconfSpec),
    MkPolicy("ModprobePolicy", NameFoo, NoSel, ModprobeSpec),
    MkPolicy("ModprobePolicy", NameSlash, NoSel, ModprobeSpec),
    MkPolicy("PolkitPolicy", NameFoo, NoSel, PolkitSpec),
    MkPolicy("PolkitPolicy", NameSlash, NoSel, PolkitSpec),
    MkPolicy("PolkitPolicy", <<"b">>, LaptopSel, PolkitSpec),
    MkPolicy("PolkitPolicy", <<"usb">>, [NoSel EXCEPT !.hostnameRegex = "("], PolkitSpec),
    MkPolicy("PolkitPolicy", <<"a">>, NoSel,
             [PolkitSpec EXCEPT !.rules = <<[Rule1 EXCEPT !.unitPrefix = <<"eval(">>]>>]),
    MkPolicy("PolkitPolicy", NameFoo, NoSel, [PolkitSpec EXCEPT !.rules = <<[Rule1 EXCEPT !.result = "NO"]>>]),
    MkPolicy("ModprobePolicy", <<"old">>, NoSel, [ModprobeSpec EXCEPT !.blacklist = <<>>]) >>

\* a repository is the set of the files it holds: none, any one of them, or one of
\* the pairs below
Repos == {{}} \cup {{i} : i \in 1..Len(PolicyFiles)} \cup {{1, 2}, {2, 4}, {4, 6}, {6, 9}, {6, 10}, {6, 11}}

\* the files of repository R in walk order
RECURSIVE WalkDir(_, _)
WalkDir(R, i) ==
    IF i > Len(PolicyFiles) THEN <<>>
    ELSE (IF i \in R THEN <<PolicyFiles[i]>> ELSE <<>>) \o WalkDir(R, i + 1)

(***************************************************************************)
(* RunOnce, step 4: what one policy file adds to the plan.                 *)
(***************************************************************************)
Item(path, data) == [path |-> path, data |-> data, mode |-> ModeFinal]
Nothing == [items |-> <<>>, initramfs |-> FALSE, runtime |-> <<>>]

Evaluate(p, ctx, now) ==
    CASE p.kind = "PolkitPolicy" ->
           IF ~Match(p.sel, ctx) THEN Nothing
           ELSE LET r == PolkitRender(p)
                IN IF r.err THEN Nothing
                   ELSE [Nothing EXCEPT !.items = <<Item(PolkitTarget(p.name), r.data)>>]
      [] p.kind = "DconfPolicy" ->
           IF ~Match(p.sel, ctx) THEN Nothing
           ELSE LET r == DconfRender(p)
                    tp == TargetPaths(p.name)
                IN IF r.err THEN Nothing
                   ELSE [Nothing EXCEPT !.items = <<Item(tp[1], r.settings), Item(tp[2], r.locks)>>]
      [] p.kind = "ModprobePolicy" ->
           IF ~Match(p.sel, ctx) THEN Nothing
           ELSE LET r == ModprobeRender(p, now)
                IN IF r.err THEN Nothing
                   ELSE [items |-> <<Item(TargetPath(p.name), r.data)>>,
                         initramfs |-> p.spec.updateInitramfs,
                         runtime |-> IF p.spec.instantApply THEN r.mods ELSE <<>>]
      [] OTHER -> Nothing

\* the walk over the policies directory, accumulated
RECURSIVE Plan(_, _, _)
Plan(files, ctx, now) ==
    IF files = <<>> THEN Nothing
    ELSE LET e == Evaluate(Head(files), ctx, now)
             rest == Plan(Tail(files), ctx, now)
         IN [items |-> e.items \o rest.items,
             initramfs |-> e.initramfs \/ rest.initramfs,
             runtime |-> e.runtime \o rest.runtime]

PathsOf(items) == [i \in 1..Len(items) |-> items[i].path]

\* run.unique
unique(in) == Dedupe(in, {})

\* /proc/modules of the host
LoadedModules == { <<"usb", "_", "storage">> }
IsSuffix(s, t) == Len(s) <= Len(t) /\ SubSeq(t, Len(t) - Len(s) + 1, Len(t)) = s
\* strings.Contains(/proc/modules, name + " "): name ends a word of the file
moduleLoaded(name) == \E l \in LoadedModules :
                         IsSuffix(name, l) \/ IsSuffix(ReplaceAll(name, "_", "-"), l)

Facts == [hostname |-> "ws1"]

(***************************************************************************)
(* The state.                                                              *)
(***************************************************************************)
VARIABLES
    fs,               \* the host's files: path -> [data, mode], for the paths that exist
    managed,          \* managed.json: the sequence of item paths
    tagdir,           \* the tags directory: [tags, baks]
    statusFile,       \* status.json: <<>> or <<the status written last>>
    auditAppended,    \* records the current RunOnce has appended to the audit log
    repo,             \* the policy files at the tip of the remote branch
    inv,              \* inventory/devices.yml at that tip
    render,           \* a policy and what the calls of its renderer returned, in order
    call,             \* a call of one of the pure functions: its arguments and what it returned
    sched,            \* the scheduler loop of main: its position, timer and counters
    ctxDone,          \* whether the context of signal.NotifyContext is cancelled
    clock,            \* time.Now(), in seconds
    faults,           \* disturbances so far: failed filesystem calls, cancellations, crashes
    pc,               \* where the current RunOnce is
    dry,              \* its dry argument
    ens,              \* what git.Ensure returned to it
    lastTags,         \* r.lastTags
    toApply, prev, idx, removed, changed,
    dconfTouched, initramfsTouched, changedModprobe, runtimeModprobe,
    fs0, managed0, tagdir0,   \* the host when the current RunOnce began
    touched,          \* the files it created, wrote, renamed onto or deleted
    cmds,             \* the post-step commands it ran, in order
    oldNode,          \* the target as applyAtomic found it
    statusWritten,    \* whether it has written status.json
    outcome,          \* "none", "running", "ok" or the error RunOnce returns
    faulted,          \* whether a filesystem call of it failed
    applyErrs,        \* how many of its calls of applyAtomic returned an error
    prevClean,        \* whether the RunOnce before it was non-dry, completed and fault-free
    lastClean         \* the same of the RunOnce that returned last

hostVars == <<fs, managed, tagdir, statusFile>>
envVars == <<repo, inv, render, call, sched, ctxDone>>
planVars == <<dry, ens, lastTags, toApply, prev, initramfsTouched, runtimeModprobe>>
loopVars == <<idx, removed, changed, dconfTouched, changedModprobe>>
snapVars == <<fs0, managed0, tagdir0, prevClean, lastClean>>
vars == <<fs, managed, tagdir, statusFile, auditAppended, repo, inv, render, call, sched, ctxDone,
          clock, faults, pc,
          dry, ens, lastTags, toApply, prev, idx, removed, changed, dconfTouched,
          initramfsTouched, changedModprobe, runtimeModprobe, fs0, managed0, tagdir0,
          touched, cmds, oldNode, statusWritten, outcome, faulted, applyErrs, prevClean, lastClean>>

\* the planned items after those of the previous managed set
desiredAndPrev == prev \o PathsOf(toApply)

desiredManaged == PathsOf(toApply)
desiredPaths == Range(desiredManaged)

Exists(f, path) == path \in DOMAIN f
File(data, mode) == [data |-> data, mode |-> mode]
Absent == [data |-> <<"(absent)">>, mode |-> 0]
NodeAt(f, path) == IF Exists(f, path) THEN f[path] ELSE Absent
WriteNode(f, path, node) == [q \in DOMAIN f \cup {path} |-> IF q = path THEN node ELSE f[q]]
RemoveNode(f, path) == [q \in DOMAIN f \ {path} |-> f[q]]
Touch(path, op, by) == [path |-> path, op |-> op, by |-> by]

(***************************************************************************)
(* Initial states: hosts the agent can find itself on.                     *)
(***************************************************************************)
ModOld == TargetPath(<<"old">>)
DconfOld == TargetPaths(<<"old">>)
Passwd == <<"/etc/", "passwd">>
Foreign == File(<<"written by the administrator\n">>, ModeFinal)
Stale == File(<<"rendered by an earlier run\n">>, ModeFinal)

HostStates == {
    [fs |-> <<>>, managed |-> <<>>],
    [fs |-> (ModOld :> Stale) @@ (PolkitTarget(NameFoo) :> Foreign), managed |-> <<ModOld>>],
    [fs |-> (DconfOld[1] :> Stale) @@ (DconfOld[2] :> Stale), managed |-> <<DconfOld[1], DconfOld[2]>>],
    [fs |-> (Passwd :> Foreign), managed |-> <<Passwd>>],
    [fs |-> ((TargetPaths(NameFoo)[1] \o <<".lgpo-tmp">>) :> Foreign), managed |-> <<>>],
    [fs |-> (ModOld :> Stale)
            @@ (TargetPath(NameFoo) :> File(ModprobeRender(PolicyFiles[4], 0).data, ModeFinal)),
     managed |-> <<ModOld, TargetPath(NameFoo)>>] }

InvDocs == {
    [readable |-> FALSE, items |-> <<>>],
    [readable |-> TRUE, items |-> <<>>],
    [readable |-> TRUE,
     items |-> << [hash |-> "h2", identity |-> "", tags |-> [group |-> "desktops"]],
                  [hash |-> "H1", identity |-> "", tags |-> [group |-> "laptops"]] >>] }

TagDirs == {
    [tags |-> <<>>, baks |-> <<>>],
    [tags |-> [group |-> <<Marker, "laptops">>], baks |-> <<>>] }

\* the repositories for which the inventory and the tag directory vary: the
\* empty one and the one whose policy selects on a tag; the others are run
\* without an inventory and with an empty tag directory
TagRepos == {{}, {8}}

NoRender == [file |-> 1, out |-> <<>>]
NoCall == [fn |-> "none", arg |-> <<>>, out |-> <<>>]
\* a file that os.WriteFile has truncated and not yet written: no JSON document
Truncated == << <<"(truncated)">> >>

\* loadManaged: the items of managed.json, none when it cannot be parsed
loadManaged(doc) == IF doc = Truncated THEN <<>> ELSE doc

\* the scheduler before main reaches it
NoSched == [pc |-> "off"]

NoEnsure == [err |-> "", sshSynced |-> FALSE, probed |-> "none"]

\* the locals of RunOnce and the record of the call, outside a call
Idle ==
    /\ pc = "idle" /\ dry = FALSE /\ ens = NoEnsure /\ lastTags = <<>>
    /\ toApply = <<>> /\ prev = <<>> /\ idx = 1 /\ removed = 0 /\ changed = 0
    /\ dconfTouched = FALSE /\ initramfsTouched = FALSE
    /\ changedModprobe = FALSE /\ runtimeModprobe = <<>>
    /\ fs0 = <<>> /\ managed0 = <<>> /\ tagdir0 = [tags |-> <<>>, baks |-> <<>>]
    /\ auditAppended = 0 /\ touched = {} /\ cmds = <<>> /\ oldNode = Absent
    /\ statusWritten = FALSE /\ outcome = "none" /\ faulted = FALSE /\ applyErrs = 0
    /\ prevClean = FALSE

Init ==
    /\ \E h \in HostStates : fs = h.fs /\ managed = h.managed
    /\ tagdir \in TagDirs
    /\ statusFile = <<>>
    /\ repo \in Repos
    /\ inv \in InvDocs
    /\ repo \notin TagRepos =>
          (~inv.readable /\ tagdir = [tags |-> <<>>, baks |-> <<>>])
    /\ render = NoRender /\ call = NoCall
    /\ sched = NoSched /\ ctxDone = FALSE
    /\ clock = 0 /\ faults = 0
    /\ lastClean = FALSE
    /\ Idle

(***************************************************************************)
(* RunOnce.  The call is cut at its filesystem calls, so that what another *)
(* process can observe between two of them is a state of the model.        *)
(***************************************************************************)

\* entry of RunOnce: what every call does before it looks at the repository
Begin(d) ==
    /\ pc = "idle"
    /\ ~ctxDone
    /\ dry' = d
    /\ prevClean' = lastClean
    /\ fs0' = fs /\ managed0' = managed /\ tagdir0' = tagdir
    /\ UNCHANGED <<auditAppended, touched, cmds, oldNode, statusWritten, faulted, applyErrs, lastClean,
                   idx, removed, changed, dconfTouched, changedModprobe>>

\* what git.Ensure can return, over every outcome of the git commands
EnsureResults == {Ensure(kind, https, ssh, probe) :
                     kind \in RepoKinds, https \in HttpsResults,
                     ssh \in SshResults, probe \in ProbeResults}

\* a test of the error that lets every error but the write-capable one pass
AbortsOnUnsafeOnly(e) == e.err = "write-capable"

\* if err != nil { ... return err }
AbortsOn(e) == e.err # ""

\* steps 1-2: facts, then git.Ensure; on an error RunOnce returns it
Sync ==
    \E d \in BOOLEAN, e \in EnsureResults :
        /\ Begin(d)
        /\ ens' = e
        /\ outcome' = IF AbortsOn(e) THEN e.err ELSE "running"
        /\ pc' = IF AbortsOn(e) THEN "failed" ELSE "synced"
        /\ UNCHANGED <<hostVars, envVars, clock, faults, lastTags, toApply, prev,
                       initramfsTouched, runtimeModprobe>>

\* tags read before the inventory step
TagsBeforeSync(before, after) == loadTags(before)

\* r.lastTags = loadTags(r.cfg.TagsDir), after the inventory step
TagsForRun(before, after) == loadTags(after)

\* the walk reaches a file of a known kind whose selector makes Match panic
WalkPanics(files) ==
    \E i \in 1..Len(files) :
       /\ files[i].kind \in {"PolkitPolicy", "DconfPolicy", "ModprobePolicy"}
       /\ MatchPanics(files[i].sel)

\* steps 3-4 when the walk panics: nothing recovers, the process ends
PlanPanic ==
    /\ pc = "synced"
    /\ WalkPanics(WalkDir(repo, 1))
    /\ ens' = NoEnsure
    /\ tagdir' = SyncInventoryTags(inv, tagdir).dir
    /\ lastTags' = TagsForRun(tagdir, tagdir')
    /\ outcome' = "panic"
    /\ pc' = "panicked"
    /\ UNCHANGED <<fs, managed, statusFile, auditAppended, envVars, clock, faults, dry,
                   toApply, prev, initramfsTouched, runtimeModprobe,
                   loopVars, snapVars, applyErrs, touched, cmds, oldNode, statusWritten, faulted>>

\* steps 3-5: inventory sync, tags, the policy walk, and the load of the managed set
PlanRun ==
    /\ pc = "synced"
    /\ ~WalkPanics(WalkDir(repo, 1))
    /\ ens' = NoEnsure
    /\ tagdir' = SyncInventoryTags(inv, tagdir).dir
    /\ lastTags' = TagsForRun(tagdir, tagdir')
    /\ LET plan == Plan(WalkDir(repo, 1), [facts |-> Facts, tags |-> lastTags'], clock)
       IN /\ toApply' = plan.items
          /\ initramfsTouched' = plan.initramfs
          /\ runtimeModprobe' = plan.runtime
    /\ prev' = loadManaged(managed)
    /\ pc' = "remove"
    /\ UNCHANGED <<fs, managed, statusFile, auditAppended, envVars, clock, faults, dry,
                   loopVars, snapVars, applyErrs, touched, cmds, oldNode, statusWritten, outcome, faulted>>

\* the drift removal loop, one managed item per step
RemoveItem ==
    /\ pc = "remove"
    /\ idx <= Len(prev)
    /\ LET path == prev[idx]
       IN IF path \in desiredPaths \/ ~allowed(path) \/ ~Exists(fs, path)
          THEN UNCHANGED <<fs, removed, dconfTouched, changedModprobe, touched, faults, faulted>>
          ELSE IF dry
          THEN /\ removed' = removed + 1
               /\ UNCHANGED <<fs, dconfTouched, changedModprobe, touched, faults, faulted>>
          ELSE /\ removed' = removed + 1
               /\ dconfTouched' = (dconfTouched \/ HasPrefix(path, DconfDir))
               /\ changedModprobe' = (changedModprobe \/ HasPrefix(path, ModprobeDir))
               /\ \/ /\ fs' = RemoveNode(fs, path)
                     /\ touched' = touched \cup {Touch(path, "delete", "drift")}
                     /\ UNCHANGED <<faults, faulted>>
                  \/ /\ faults < MaxFaults          \* os.Remove fails; the error is dropped
                     /\ faults' = faults + 1
                     /\ faulted' = TRUE
                     /\ UNCHANGED <<fs, touched>>
    /\ idx' = idx + 1
    /\ UNCHANGED <<managed, tagdir, statusFile, auditAppended, envVars, clock, pc, planVars,
                   changed, snapVars, applyErrs, cmds, oldNode, statusWritten, outcome>>

RemoveDone ==
    /\ pc = "remove"
    /\ idx > Len(prev)
    /\ pc' = "apply"
    /\ idx' = 1
    /\ UNCHANGED <<hostVars, auditAppended, envVars, clock, faults, planVars, removed, changed,
                   dconfTouched, changedModprobe, snapVars, applyErrs, touched, cmds, oldNode,
                   statusWritten, outcome, faulted>>

\* what the apply loop does with the result (c, err) of applyAtomic
Counted(it) ==
    /\ changed' = changed + 1
    /\ dconfTouched' = (dconfTouched \/ HasPrefix(it.path, DconfDir))
    /\ changedModprobe' = (changedModprobe \/ HasPrefix(it.path, ModprobeDir))

\* applyAtomic up to the dry-run return
ApplyCheck ==
    /\ pc = "apply"
    /\ idx <= Len(toApply)
    /\ LET it == toApply[idx]
       IN IF ~okPath(it.path)
          THEN /\ idx' = idx + 1
               /\ applyErrs' = applyErrs + 1
               /\ UNCHANGED <<pc, changed, dconfTouched, changedModprobe, oldNode>>
          ELSE IF Exists(fs, it.path) /\ fs[it.path].data = it.data
          THEN /\ idx' = idx + 1
               /\ UNCHANGED <<pc, changed, dconfTouched, changedModprobe, oldNode, applyErrs>>
          ELSE IF dry
          THEN /\ idx' = idx + 1
               /\ Counted(it)
               /\ UNCHANGED <<pc, oldNode, applyErrs>>
          ELSE /\ pc' = "mkdir"
               /\ oldNode' = NodeAt(fs, it.path)
               /\ UNCHANGED <<idx, changed, dconfTouched, changedModprobe, applyErrs>>
    /\ UNCHANGED <<hostVars, auditAppended, envVars, clock, faults, planVars, removed, snapVars,
                   touched, cmds, statusWritten, outcome, faulted>>

applyFrame == <<managed, tagdir, statusFile, auditAppended, envVars, clock, planVars,
                removed, snapVars, cmds, oldNode, statusWritten, outcome>>

\* os.MkdirAll(filepath.Dir(it.Path), 0o755)
ApplyMkdirAll ==
    /\ pc = "mkdir"
    /\ pc' = "open"
    /\ UNCHANGED <<fs, applyFrame, loopVars, touched, faults, faulted, applyErrs>>

\* os.WriteFile(tmp, it.Data, 0o600), the open: the file is created with mode 0600,
\* or truncated with its mode kept
ApplyOpenTmp ==
    /\ pc = "open"
    /\ LET tmp == TmpOf(toApply[idx].path)
       IN /\ fs' = WriteNode(fs, tmp,
                      File(<<>>, IF Exists(fs, tmp) THEN fs[tmp].mode ELSE ModeTmp))
          /\ touched' = touched \cup {Touch(tmp, "write", "apply")}
    /\ pc' = "write"
    /\ UNCHANGED <<applyFrame, loopVars, faults, faulted, applyErrs>>

\* os.WriteFile, the write
ApplyWriteTmp ==
    /\ pc = "write"
    /\ LET tmp == TmpOf(toApply[idx].path)
       IN fs' = WriteNode(fs, tmp, File(toApply[idx].data, fs[tmp].mode))
    /\ pc' = "chmod"
    /\ UNCHANGED <<applyFrame, loopVars, touched, faults, faulted, applyErrs>>

\* os.Chmod(tmp, it.Mode)
ApplyChmod ==
    /\ pc = "chmod"
    /\ LET tmp == TmpOf(toApply[idx].path)
       IN fs' = WriteNode(fs, tmp, File(fs[tmp].data, toApply[idx].mode))
    /\ pc' = "rename"
    /\ UNCHANGED <<applyFrame, loopVars, touched, faults, faulted, applyErrs>>

\* os.Rename(tmp, it.Path), and the apply loop counting the change
ApplyRename ==
    /\ pc = "rename"
    /\ LET it == toApply[idx]
           tmp == TmpOf(it.path)
       IN /\ fs' = RemoveNode(WriteNode(fs, it.path, fs[tmp]), tmp)
          /\ touched' = touched \cup {Touch(it.path, "rename", "apply")}
          /\ Counted(it)
    /\ idx' = idx + 1
    /\ pc' = "apply"
    /\ UNCHANGED <<applyFrame, removed, faults, faulted, applyErrs>>

\* the file applyAtomic removes when Chmod or Rename has failed (CleanupTarget:
\* a cleanup that removes the target instead)
CleanupTarget(it) == it.path
CleanupPath(it) == TmpOf(it.path)

\* one of the calls above fails: applyAtomic returns the error (after removing
\* the temp file when Chmod or Rename failed) and the loop goes on
ApplyFault ==
    /\ pc \in {"mkdir", "open", "write", "chmod", "rename"}
    /\ faults < MaxFaults
    /\ faults' = faults + 1
    /\ faulted' = TRUE
    /\ LET tmp == CleanupPath(toApply[idx])
       IN IF pc \in {"chmod", "rename"}
          THEN /\ fs' = RemoveNode(fs, tmp)
               /\ touched' = touched \cup {Touch(tmp, "delete", "apply")}
          ELSE UNCHANGED <<fs, touched>>
    /\ idx' = idx + 1
    /\ applyErrs' = applyErrs + 1
    /\ pc' = "apply"
    /\ UNCHANGED <<applyFrame, removed, changed, dconfTouched, changedModprobe>>

ApplyDone ==
    /\ pc = "apply"
    /\ idx > Len(toApply)
    /\ pc' = "post"
    /\ UNCHANGED <<hostVars, auditAppended, envVars, clock, faults, planVars, loopVars, snapVars, applyErrs,
                   touched, cmds, oldNode, statusWritten, outcome, faulted>>

(***************************************************************************)
(* Post-steps, and the records of the run.                                 *)
(***************************************************************************)
RECURSIVE ModprobeCmds(_)
ModprobeCmds(mods) ==
    IF mods = <<>> THEN <<>>
    ELSE (IF moduleLoaded(Head(mods)) THEN << <<"modprobe", "-r">> \o Head(mods) >> ELSE <<>>)
         \o ModprobeCmds(Tail(mods))

\* ensureDconfProfile: the files it writes
ensureDconfProfile(f) ==
    IF Exists(f, DconfProfilePath) THEN f
    ELSE WriteNode(f, DconfProfilePath, File(DconfProfileContent, ModeFinal))

ProfileTouches(f) ==
    IF Exists(f, DconfProfilePath) THEN {}
    ELSE {Touch(DconfProfileTmp, "write", "poststep"),
          Touch(DconfProfilePath, "rename", "poststep")}

\* exec.CommandContext(ctx, ...): a command is not started once ctx is cancelled
Started(commands) == IF ctxDone THEN <<>> ELSE commands

\* a gate that lets the dconf post-step run in every non-dry run
DconfAlways == ~dry

\* if !dry && dconfTouched
DconfGate == ~dry /\ dconfTouched

\* dconf compile, then runDconfUpdate; ok is whether dconf update exited with 0
DconfCmds(ok) ==
    << <<"dconf", "compile">>,
       IF ok THEN <<"dconf", "update">> ELSE <<"dconf", "update", "(exit status 1)">> >>

PostSteps ==
    /\ pc = "post"
    /\ LET doDconf == DconfGate
           doInitramfs == ~dry /\ initramfsTouched
           doModprobe == ~dry /\ changedModprobe /\ Len(runtimeModprobe) > 0
       IN /\ fs' = IF doDconf THEN ensureDconfProfile(fs) ELSE fs
          /\ touched' = IF doDconf THEN touched \cup ProfileTouches(fs) ELSE touched
          /\ \E ok \in BOOLEAN :
                /\ ~ok => (doDconf /\ ~ctxDone)
                /\ cmds' = cmds \o Started(
                      (IF doDconf THEN DconfCmds(ok) ELSE <<>>)
                      \o (IF doInitramfs THEN << <<"update-initramfs", "-u">> >> ELSE <<>>)
                      \o (IF doModprobe THEN ModprobeCmds(unique(runtimeModprobe)) ELSE <<>>))
    /\ pc' = "record"
    /\ UNCHANGED <<managed, tagdir, statusFile, auditAppended, envVars, clock, faults,
                   planVars, loopVars, snapVars, applyErrs, oldNode, statusWritten, outcome, faulted>>

\* saveManaged: os.WriteFile opens managed.json with O_TRUNC ...
SaveManagedOpen ==
    /\ pc = "record"
    /\ IF dry THEN /\ pc' = "status"
                   /\ UNCHANGED managed
              ELSE /\ pc' = "saving"
                   /\ managed' = Truncated
    /\ UNCHANGED <<fs, tagdir, statusFile, auditAppended, envVars, clock, faults, planVars, loopVars,
                   snapVars, applyErrs, touched, cmds, oldNode, statusWritten, outcome, faulted>>

\* ... and writes the document
SaveManagedWrite ==
    /\ pc = "saving"
    /\ managed' = desiredManaged
    /\ pc' = "status"
    /\ UNCHANGED <<fs, tagdir, statusFile, auditAppended, envVars, clock, faults, planVars, loopVars,
                   snapVars, applyErrs, touched, cmds, oldNode, statusWritten, outcome, faulted>>

\* status.Write: os.WriteFile opens status.json with O_TRUNC ...
StatusOpen ==
    /\ pc = "status"
    /\ statusFile' = Truncated
    /\ pc' = "statusw"
    /\ UNCHANGED <<fs, managed, tagdir, auditAppended, envVars, clock, faults, planVars, loopVars,
                   snapVars, applyErrs, touched, cmds, oldNode, statusWritten, outcome, faulted>>

\* ... and writes the status; then the audit record, and the return of RunOnce
Record ==
    /\ pc = "statusw"
    /\ statusFile' = << [result |-> "ok", changed |-> changed, failed |-> 0] >>
    /\ statusWritten' = TRUE
    /\ auditAppended' = auditAppended + 1
    /\ outcome' = "ok"
    /\ pc' = "done"
    /\ UNCHANGED <<fs, managed, tagdir, envVars, clock, faults, planVars, loopVars, snapVars, applyErrs,
                   touched, cmds, oldNode, faulted>>

\* the process is killed, or the host loses power, while it saves its state
Crash ==
    /\ pc \in {"saving", "status", "statusw"}
    /\ faults < MaxFaults
    /\ faults' = faults + 1
    /\ lastClean' = FALSE
    /\ pc' = "idle" /\ dry' = FALSE /\ ens' = NoEnsure /\ lastTags' = <<>>
    /\ toApply' = <<>> /\ prev' = <<>> /\ idx' = 1 /\ removed' = 0 /\ changed' = 0
    /\ dconfTouched' = FALSE /\ initramfsTouched' = FALSE
    /\ changedModprobe' = FALSE /\ runtimeModprobe' = <<>>
    /\ fs0' = <<>> /\ managed0' = <<>> /\ tagdir0' = [tags |-> <<>>, baks |-> <<>>]
    /\ auditAppended' = 0 /\ touched' = {} /\ cmds' = <<>> /\ oldNode' = Absent
    /\ statusWritten' = FALSE /\ outcome' = "none" /\ faulted' = FALSE /\ applyErrs' = 0
    /\ prevClean' = FALSE
    /\ UNCHANGED <<hostVars, envVars, clock>>

\* RunOnce returns: its locals are gone
Return ==
    /\ pc \in {"done", "failed"}
    /\ lastClean' = (pc = "done" /\ ~dry /\ ~faulted)
    /\ pc' = "idle" /\ dry' = FALSE /\ ens' = NoEnsure /\ lastTags' = <<>>
    /\ toApply' = <<>> /\ prev' = <<>> /\ idx' = 1 /\ removed' = 0 /\ changed' = 0
    /\ dconfTouched' = FALSE /\ initramfsTouched' = FALSE
    /\ changedModprobe' = FALSE /\ runtimeModprobe' = <<>>
    /\ fs0' = <<>> /\ managed0' = <<>> /\ tagdir0' = [tags |-> <<>>, baks |-> <<>>]
    /\ auditAppended' = 0 /\ touched' = {} /\ cmds' = <<>> /\ oldNode' = Absent
    /\ statusWritten' = FALSE /\ outcome' = "none" /\ faulted' = FALSE /\ applyErrs' = 0
    /\ prevClean' = FALSE
    /\ UNCHANGED <<hostVars, envVars, clock, faults>>

\* the context of the run is cancelled while RunOnce is in progress
Cancel ==
    /\ pc \notin {"idle", "panicked"}
    /\ ~ctxDone
    /\ faults < MaxFaults
    /\ faults' = faults + 1
    /\ ctxDone' = TRUE
    /\ UNCHANGED <<hostVars, auditAppended, repo, inv, render, call, sched, clock, pc,
                   planVars, loopVars, snapVars, applyErrs, touched, cmds, oldNode, statusWritten,
                   outcome, faulted>>

\* time passes between two runs
Tick ==
    /\ pc = "idle"
    /\ clock < MaxClock
    /\ clock' = clock + 1
    /\ UNCHANGED <<hostVars, auditAppended, envVars, faults, pc, planVars, loopVars, snapVars, applyErrs,
                   touched, cmds, oldNode, statusWritten, outcome, faulted>>

Next ==
    \/ Sync
    \/ Cancel
    \/ PlanRun
    \/ PlanPanic
    \/ RemoveItem
    \/ RemoveDone
    \/ ApplyCheck
    \/ ApplyMkdirAll
    \/ ApplyOpenTmp
    \/ ApplyWriteTmp
    \/ ApplyChmod
    \/ ApplyRename
    \/ ApplyFault
    \/ ApplyDone
    \/ PostSteps
    \/ SaveManagedOpen
    \/ SaveManagedWrite
    \/ StatusOpen
    \/ Record
    \/ Crash
    \/ Return
    \/ Tick

Spec == Init /\ [][Next]_vars

(***************************************************************************)
(* The renderers on their own: one policy, rendered up to MaxCalls times,  *)
(* time passing between the calls.                                         *)
(***************************************************************************)
RenderOf(p, now) ==
    CASE p.kind = "PolkitPolicy" ->
           LET r == PolkitRender(p) IN [err |-> r.err, bytes |-> <<r.data>>]
      [] p.kind = "DconfPolicy" ->
           LET r == DconfRender(p) IN [err |-> r.err, bytes |-> <<r.settings, r.locks>>]
      [] OTHER ->
           LET r == ModprobeRender(p, now) IN [err |-> r.err, bytes |-> <<r.data>>]

\* the policies handed to the renderers: those of the repository and variants of them
RenderInputs == PolicyFiles \o <<
    MkPolicy("ModprobePolicy", NameFoo, NoSel, [ModprobeSpec EXCEPT !.installFalse = FALSE]),
    MkPolicy("ModprobePolicy", NameFoo, NoSel,
             [ModprobeSpec EXCEPT !.blacklist = << <<"usb", "_", "storage">>, <<"usb", "-", "storage">> >>]),
    MkPolicy("ModprobePolicy", NameFoo, NoSel,
             [ModprobeSpec EXCEPT !.blacklist = << <<" ", "usb", "-", "storage", " ">> >>]),
    MkPolicy("ModprobePolicy", NameFoo, NoSel, [ModprobeSpec EXCEPT !.blacklist = << <<"USB">> >>]),
    MkPolicy("ModprobePolicy", NameFoo, NoSel,
             [ModprobeSpec EXCEPT !.blacklist = << <<"usb">>, <<"a", "-", "b", "_", "a">>, <<"usb">> >>]),
    MkPolicy("PolkitPolicy", NameFoo, NoSel, [PolkitSpec EXCEPT !.rules = <<Rule1, Rule1>>]),
    MkPolicy("PolkitPolicy", NameFoo, NoSel,
             [PolkitSpec EXCEPT !.rules = <<[Rule1 EXCEPT !.name = <<"foo">>], [Rule1 EXCEPT !.name = <<"b">>],
                                            Rule1, [Rule1 EXCEPT !.name = <<"b">>]>>]),
    MkPolicy("DconfPolicy", NameFoo, NoSel,
             [DconfSpec EXCEPT !.settings =
                 (<<"org/gnome/desktop/session">> :> (<<"idle-delay">> :> "uint32 300" @@ <<"b">> :> "1"
                                                        @@ <<"a", "-", "b">> :> "true"))
                 @@ (<<"b">> :> (<<"foo">> :> "0" @@ <<"a">> :> "''"))
                 @@ (<<"a", "_">> :> (<<"b">> :> "2"))]),
    MkPolicy("DconfPolicy", NameFoo, NoSel, [DconfSpec EXCEPT !.locks = <<>>]),
    MkPolicy("PolkitPolicy", NameFoo, NoSel,
             [PolkitSpec EXCEPT !.rules =
                 << [Rule1 EXCEPT !.name = <<"b">>,
                                  !.matches = << [actionID |-> <<"org", ".", "freedesktop">>, actionPrefix |-> <<>>],
                                                 [actionID |-> <<"org", ".", "udisks2">>, actionPrefix |-> <<>>] >>],
                    [Rule1 EXCEPT !.name = <<"a">>, !.defaultResult = "AUTH_ADMIN",
                                  !.matches = << [actionID |-> <<>>, actionPrefix |-> <<"org", ".", "udisks2">>],
                                                 [actionID |-> <<>>, actionPrefix |-> <<"org", ".">>] >>] >>]),
    MkPolicy("PolkitPolicy", NameFoo, NoSel,
             [PolkitSpec EXCEPT !.rules =
                 << [Rule1 EXCEPT !.name = <<"foo">>, !.defaultResult = "nil"],
                    [Rule1 EXCEPT !.name = <<"a">>,
                                  !.matches = << [actionID |-> <<"org", ".", "freedesktop">>,
                                                  actionPrefix |-> <<"org", ".">>] >>] >>]) >>

InitRender ==
    /\ fs = <<>> /\ managed = <<>> /\ tagdir = [tags |-> <<>>, baks |-> <<>>]
    /\ statusFile = <<>>
    /\ repo = {}
    /\ sched = NoSched /\ ctxDone = FALSE
    /\ inv = [readable |-> FALSE, items |-> <<>>]
    /\ \E i \in 1..Len(RenderInputs) : render = [file |-> i, out |-> <<>>]
    /\ call = NoCall
    /\ clock = 0 /\ faults = 0
    /\ lastClean = FALSE
    /\ Idle

RenderCall ==
    /\ Len(render.out) < MaxCalls
    /\ render' = [render EXCEPT !.out = Append(@, RenderOf(RenderInputs[render.file], clock))]
    /\ UNCHANGED <<hostVars, auditAppended, repo, inv, call, sched, ctxDone, clock, faults, pc, planVars,
                   loopVars, snapVars, applyErrs, touched, cmds, oldNode, statusWritten, outcome, faulted>>

RenderTick ==
    /\ clock < MaxClock
    /\ clock' = clock + 1
    /\ UNCHANGED <<hostVars, auditAppended, envVars, faults, pc, planVars, loopVars, snapVars, applyErrs,
                   touched, cmds, oldNode, statusWritten, outcome, faulted>>

NextRender == RenderCall \/ RenderTick

SpecRender == InitRender /\ [][NextRender]_vars

(***************************************************************************)
(* Sel.Match on its own: one selector, one context, one call.              *)
(***************************************************************************)
SelInputs == {
    NoSel,
    [NoSel EXCEPT !.hostnameRegex = "ws"],
    [NoSel EXCEPT !.hostnameRegex = "ws1"],
    [NoSel EXCEPT !.hostnameRegex = "("],
    [NoSel EXCEPT !.facts = [os |-> "linux"]],
    [NoSel EXCEPT !.facts = [os |-> ""]],
    [NoSel EXCEPT !.facts = [os |-> "linux", hostname |-> "ws1"]],
    LaptopSel,
    [NoSel EXCEPT !.tags = [group |-> TagList(<<"desktops", "laptops">>)]],
    [NoSel EXCEPT !.tags = [group |-> TagList(<<>>)]],
    [NoSel EXCEPT !.tags = [group |-> [shape |-> "number", str |-> "", items |-> <<>>]]],
    [NoSel EXCEPT !.hostnameRegex = "ws1", !.tags = [group |-> TagStr("laptops")]] }

CtxInputs == {[facts |-> f, tags |-> t] :
                 f \in {<<>>, [hostname |-> "news1"], [hostname |-> "ws1", os |-> "linux"]},
                 t \in {<<>>, [group |-> "laptops"], [group |-> "desktops"]}}

InitMatch ==
    /\ fs = <<>> /\ managed = <<>> /\ tagdir = [tags |-> <<>>, baks |-> <<>>]
    /\ statusFile = <<>>
    /\ repo = {}
    /\ sched = NoSched /\ ctxDone = FALSE
    /\ inv = [readable |-> FALSE, items |-> <<>>]
    /\ render = NoRender
    /\ \E sel \in SelInputs, ctx \in CtxInputs :
          call = [fn |-> "Match", arg |-> <<sel, ctx>>, out |-> <<>>]
    /\ clock = 0 /\ faults = 0
    /\ lastClean = FALSE
    /\ Idle

MatchCall ==
    /\ call.fn = "Match" /\ call.out = <<>>
    /\ call' = [call EXCEPT !.out = <<MatchOutcome(call.arg[1], call.arg[2])>>]
    /\ UNCHANGED <<hostVars, auditAppended, repo, inv, render, sched, ctxDone, clock, faults, pc, planVars,
                   loopVars, snapVars, applyErrs, touched, cmds, oldNode, statusWritten, outcome, faulted>>

NextMatch == MatchCall

SpecMatch == InitMatch /\ [][NextMatch]_vars

(***************************************************************************)
(* The device fingerprint.  A key file is a record of its PEM framing and  *)
(* the key in it; sha256 and the encoders are injective, so a digest is    *)
(* written as the term it was computed from.                               *)
(***************************************************************************)
NoFile == [exists |-> FALSE, format |-> "", algo |-> "", key |-> ""]
KeyFile(format, algo, key) == [exists |-> TRUE, format |-> format, algo |-> algo, key |-> key]

\* ed25519 PrivateKey.Public()
PublicOf(key) == <<"pub(", key, ")">>
\* x509.MarshalPKIXPublicKey, pem.EncodeToMemory
PubPEM(pub) == <<"PEM(", "PKIX(">> \o pub \o <<")", ")">>
\* strings.ToLower(hex.EncodeToString(sha256.Sum256(b)))
Sha256Hex(b) == <<"sha256(">> \o b \o <<")">>

HashOf(pub) == [hash |-> Sha256Hex(PubPEM(pub)), pem |-> PubPEM(pub), err |-> FALSE]
HashErr == [hash |-> <<>>, pem |-> <<>>, err |-> TRUE]

ComputeDeviceHashFromPrivateKey(f) ==
    IF ~f.exists THEN HashErr
    ELSE IF f.format = "openssh"
         THEN IF f.algo = "ed25519" THEN HashOf(PublicOf(f.key)) ELSE HashErr
    ELSE IF f.format = "pkcs8"
         THEN IF f.algo = "ed25519" THEN HashOf(PublicOf(f.key)) ELSE HashErr
    ELSE HashErr

\* the file holds an authorized_keys line; any key type that exposes a
\* crypto key is accepted
ComputeDeviceHashFromOpenSSHPub(f) ==
    IF ~f.exists THEN HashErr
    ELSE IF f.format = "authorized_key" THEN HashOf(PublicOf(f.key))
    ELSE HashErr

ComputeDeviceHashPreferPub(keyFile, pubFile) ==
    IF pubFile.exists THEN ComputeDeviceHashFromOpenSSHPub(pubFile)
    ELSE ComputeDeviceHashFromPrivateKey(keyFile)

PrivateKeyFiles == {
    NoFile,
    KeyFile("openssh", "ed25519", "k1"),
    KeyFile("pkcs8", "ed25519", "k1"),
    KeyFile("openssh", "ed25519", "k2"),
    KeyFile("openssh", "rsa", "k3"),
    KeyFile("garbage", "", "") }

PubFiles == {
    NoFile,
    KeyFile("authorized_key", "ed25519", "k1"),
    KeyFile("authorized_key", "ed25519", "k2"),
    KeyFile("garbage", "", "") }

InitHash ==
    /\ fs = <<>> /\ managed = <<>> /\ tagdir = [tags |-> <<>>, baks |-> <<>>]
    /\ statusFile = <<>>
    /\ repo = {}
    /\ sched = NoSched /\ ctxDone = FALSE
    /\ inv = [readable |-> FALSE, items |-> <<>>]
    /\ render = NoRender
    /\ \E k \in PrivateKeyFiles, q \in PubFiles :
          call = [fn |-> "DeviceHash", arg |-> <<k, q>>, out |-> <<>>]
    /\ clock = 0 /\ faults = 0
    /\ lastClean = FALSE
    /\ Idle

hashFrame == <<hostVars, auditAppended, repo, inv, render, sched, ctxDone, clock, faults, pc, planVars,
               loopVars, snapVars, applyErrs, touched, cmds, oldNode, statusWritten, outcome, faulted>>

\* a run computes the fingerprint, for the inventory match or for the hint
HashCall ==
    /\ call.fn = "DeviceHash" /\ Len(call.out) < MaxCalls
    /\ call' = [call EXCEPT
                   !.out = Append(@, ComputeDeviceHashPreferPub(call.arg[1], call.arg[2]))]
    /\ UNCHANGED hashFrame

\* between two runs the file next to the private key is written or removed;
\* the private key stays
PubFileChange ==
    /\ call.fn = "DeviceHash" /\ call.out # <<>>
    /\ \E q \in PubFiles \ {call.arg[2]} : call' = [call EXCEPT !.arg = <<call.arg[1], q>>]
    /\ UNCHANGED hashFrame

NextHash == HashCall \/ PubFileChange

SpecHash == InitHash /\ [][NextHash]_vars

(***************************************************************************)
(* git.Ensure on its own: one remote, and one outcome for each git command *)
(* that Ensure may start.  The remote of a device is fixed by its          *)
(* configuration; what the commands answer changes between two runs.       *)
(***************************************************************************)
\* the calls of ensureWith that Ensure makes, in order: "https" is the call
\* with no extra environment, "ssh" the call with sshEnv()
ensureWithCalls(kind, https, ssh) ==
    IF isSSHURL(kind) THEN <<"ssh">>
    ELSE IF https = "ok" THEN <<"https">>
    ELSE IF kind = "github" THEN <<"https", "ssh">>
    ELSE <<"https">>

InitEnsure ==
    /\ fs = <<>> /\ managed = <<>> /\ tagdir = [tags |-> <<>>, baks |-> <<>>]
    /\ statusFile = <<>>
    /\ repo = {}
    /\ sched = NoSched /\ ctxDone = FALSE
    /\ inv = [readable |-> FALSE, items |-> <<>>]
    /\ render = NoRender
    /\ \E kind \in RepoKinds, https \in HttpsResults, ssh \in SshResults, probe \in ProbeResults :
          call = [fn |-> "Ensure", arg |-> <<kind, https, ssh, probe>>, out |-> <<>>]
    /\ clock = 0 /\ faults = 0
    /\ lastClean = FALSE
    /\ Idle

\* one call of git.Ensure: what it returned and which syncs it started
EnsureCall ==
    /\ call.fn = "Ensure"
    /\ call' = [call EXCEPT
                   !.out = << [arg |-> call.arg,
                               res |-> Ensure(call.arg[1], call.arg[2], call.arg[3], call.arg[4]),
                               calls |-> ensureWithCalls(call.arg[1], call.arg[2], call.arg[3])] >>]
    /\ UNCHANGED hashFrame

\* between two runs the network, the deploy key or the branch changes
RemoteChange ==
    /\ call.fn = "Ensure" /\ call.out # <<>>
    /\ \E https \in HttpsResults, ssh \in SshResults, probe \in ProbeResults :
          /\ <<https, ssh, probe>> # <<call.arg[2], call.arg[3], call.arg[4]>>
          /\ call' = [call EXCEPT !.arg = <<call.arg[1], https, ssh, probe>>]
    /\ UNCHANGED hashFrame

NextEnsure == EnsureCall \/ RemoteChange

SpecEnsure == InitEnsure /\ [][NextEnsure]_vars

(***************************************************************************)
(* Two agent processes (the service and a manual run --once) in            *)
(* applyAtomic for the same target at the same time.  Nothing in the agent *)
(* serialises them.  A process that has opened the temp file holds the     *)
(* inode, not the name: file says under which name its inode now stands.   *)
(***************************************************************************)
Procs == {1, 2}
Other(p) == 3 - p

\* the artifact each process has rendered for the target: the same policy,
\* rendered in the same second or a second apart
ApplyItems == {[path |-> TargetPath(NameFoo),
                data |-> ModprobeRender(PolicyFiles[4], t).data,
                mode |-> ModeFinal] : t \in 0..MaxClock}

TargetStates == {<<>>,
                 (TargetPath(NameFoo) :> Stale),
                 (TargetPath(NameFoo) :> File(ModprobeRender(PolicyFiles[4], 0).data, ModeFinal))}

InitTwo ==
    /\ fs \in TargetStates
    /\ managed = <<>> /\ tagdir = [tags |-> <<>>, baks |-> <<>>]
    /\ statusFile = <<>>
    /\ repo = {}
    /\ sched = NoSched /\ ctxDone = FALSE
    /\ inv = [readable |-> FALSE, items |-> <<>>]
    /\ render = NoRender
    /\ \E it1 \in ApplyItems, it2 \in ApplyItems :
          call = [fn |-> "applyAtomic", arg |-> <<it1, it2>>,
                  out |-> [p \in Procs |-> [pc |-> "check", file |-> "none", ret |-> "none"]]]
    /\ clock = 0 /\ faults = 0
    /\ lastClean = FALSE
    /\ Idle

twoFrame == <<managed, tagdir, statusFile, auditAppended, repo, inv, render, sched, ctxDone,
              clock, faults, pc, planVars, loopVars, snapVars, applyErrs, touched, cmds,
              oldNode, statusWritten, outcome, faulted>>

\* process p moves on; the inode the other process holds gets the name theirs
Step(p, next, mine, theirs, ret) ==
    call' = [call EXCEPT !.out = [q \in Procs |->
                IF q = p THEN [pc |-> next, file |-> mine, ret |-> ret]
                ELSE [call.out[q] EXCEPT !.file = theirs]]]

\* os.ReadFile(it.Path) and the comparison
TwoCheck(p) ==
    /\ call.fn = "applyAtomic" /\ call.out[p].pc = "check"
    /\ LET it == call.arg[p]
       IN IF Exists(fs, it.path) /\ fs[it.path].data = it.data
          THEN Step(p, "returned", "none", call.out[Other(p)].file, "unchanged")
          ELSE Step(p, "open", "none", call.out[Other(p)].file, "none")
    /\ UNCHANGED <<fs, twoFrame>>

\* os.WriteFile(tmp, ...), the open with O_CREATE|O_TRUNC: an existing temp
\* file is truncated, whoever wrote it
TwoOpenTmp(p) ==
    /\ call.fn = "applyAtomic" /\ call.out[p].pc = "open"
    /\ LET tmp == TmpOf(call.arg[p].path)
       IN fs' = WriteNode(fs, tmp,
                   File(<<>>, IF Exists(fs, tmp) THEN fs[tmp].mode ELSE ModeTmp))
    /\ Step(p, "write", "tmp", call.out[Other(p)].file, "none")
    /\ UNCHANGED twoFrame

\* os.WriteFile, the write: to the inode, under whatever name it stands now
TwoWriteTmp(p) ==
    /\ call.fn = "applyAtomic" /\ call.out[p].pc = "write"
    /\ LET it == call.arg[p]
           name == CASE call.out[p].file = "tmp" -> TmpOf(it.path)
                     [] call.out[p].file = "target" -> it.path
                     [] OTHER -> <<>>
       IN IF name = <<>> THEN fs' = fs
          ELSE fs' = WriteNode(fs, name, File(it.data, fs[name].mode))
    /\ Step(p, "chmod", "none", call.out[Other(p)].file, "none")
    /\ UNCHANGED twoFrame

\* os.Chmod(tmp, it.Mode); it fails when the temp file is gone, and
\* os.Remove(tmp) then finds nothing
TwoChmod(p) ==
    /\ call.fn = "applyAtomic" /\ call.out[p].pc = "chmod"
    /\ LET it == call.arg[p]
           tmp == TmpOf(it.path)
       IN IF Exists(fs, tmp)
          THEN /\ fs' = WriteNode(fs, tmp, File(fs[tmp].data, it.mode))
               /\ Step(p, "rename", "none", call.out[Other(p)].file, "none")
          ELSE /\ fs' = fs
               /\ Step(p, "returned", "none", call.out[Other(p)].file, "error")
    /\ UNCHANGED twoFrame

\* os.Rename(tmp, it.Path): the inode named tmp takes the name of the target,
\* the inode that had it loses its name
TwoRename(p) ==
    /\ call.fn = "applyAtomic" /\ call.out[p].pc = "rename"
    /\ LET it == call.arg[p]
           tmp == TmpOf(it.path)
           theirs == call.out[Other(p)].file
       IN IF Exists(fs, tmp)
          THEN /\ fs' = RemoveNode(WriteNode(fs, it.path, fs[tmp]), tmp)
               /\ Step(p, "returned", "none",
                       CASE theirs = "tmp" -> "target"
                         [] theirs = "target" -> "unlinked"
                         [] OTHER -> theirs,
                       "changed")
          ELSE /\ fs' = fs
               /\ Step(p, "returned", "none", theirs, "error")
    /\ UNCHANGED twoFrame

NextTwo ==
    \E p \in Procs : TwoCheck(p) \/ TwoOpenTmp(p) \/ TwoWriteTmp(p) \/ TwoChmod(p) \/ TwoRename(p)

SpecTwo == InitTwo /\ [][NextTwo]_vars

(***************************************************************************)
(* SyncInventoryTags on its own: one inventory, one tag directory, one     *)
(* call.  The matched entry has at most one tag besides the blank key, so  *)
(* that the order in which Go walks match.Tags does not matter.            *)
(***************************************************************************)
TagFiles == {<<>>, <<Marker, "laptops">>, <<Marker, "old">>, <<"laptops">>, <<"admin">>, DirNode}

\* a directory from the content of each name; <<>> stands for no such name
DirOf(group, identity, site, bak) ==
    [tags |-> [k \in {x \in {"group", "identity", "site"} :
                         (CASE x = "group" -> group [] x = "identity" -> identity
                            [] OTHER -> site) # <<>>} |->
                  CASE k = "group" -> group [] k = "identity" -> identity [] OTHER -> site],
     baks |-> IF bak = <<>> THEN <<>> ELSE [k \in {"group"} |-> bak]]

DirInputs == {DirOf(g, i, st, b) :
                 g \in TagFiles, i \in TagFiles \ {<<"laptops">>},
                 st \in {<<>>, <<Marker, "old">>, <<"admin">>},
                 b \in {<<>>, <<"older">>, DirNode}}

Entry(hash, identity, tags) == [hash |-> hash, identity |-> identity, tags |-> tags]
InvInputs == {
    [readable |-> FALSE, items |-> <<>>],
    [readable |-> TRUE, items |-> <<>>],
    [readable |-> TRUE, items |-> <<Entry("h2", "pc2", [group |-> "desktops"])>>],
    [readable |-> TRUE, items |-> <<Entry("h1", "", [group |-> "laptops"])>>],
    [readable |-> TRUE, items |-> <<Entry("h1", "pc7", [group |-> "laptops"])>>],
    [readable |-> TRUE, items |-> <<Entry("h1", "pc7", <<>>)>>],
    [readable |-> TRUE, items |-> <<Entry("h1", "pc7", [identity |-> "x"])>>],
    [readable |-> TRUE, items |-> <<Entry("h1", "", ("" :> "x") @@ ("group" :> "laptops"))>>],
    [readable |-> TRUE, items |-> <<Entry("h2", "", [group |-> "desktops"]),
                                    Entry("H1", "", [group |-> "laptops"]),
                                    Entry("h1", "", [group |-> "desktops"])>>] }

InitTags ==
    /\ fs = <<>> /\ managed = <<>> /\ tagdir = [tags |-> <<>>, baks |-> <<>>]
    /\ statusFile = <<>>
    /\ repo = {}
    /\ sched = NoSched /\ ctxDone = FALSE
    /\ inv = [readable |-> FALSE, items |-> <<>>]
    /\ render = NoRender
    /\ \E i \in InvInputs, d \in DirInputs :
          call = [fn |-> "SyncInventoryTags", arg |-> <<i, d>>, out |-> <<>>]
    /\ clock = 0 /\ faults = 0
    /\ lastClean = FALSE
    /\ Idle

TagsCall ==
    /\ call.fn = "SyncInventoryTags" /\ call.out = <<>>
    /\ call' = [call EXCEPT !.out = <<SyncInventoryTags(call.arg[1], call.arg[2])>>]
    /\ UNCHANGED hashFrame

NextTags == TagsCall

SpecTags == InitTags /\ [][NextTags]_vars

(***************************************************************************)
(* writeManagedTag and loadTags on the text of one tag file.  Here a text  *)
(* is a sequence of characters, "\n" among them, and the marker is the     *)
(* character "#" followed by the rest of the marker line.                  *)
(***************************************************************************)
MaxValueLen == 3
ValueChars == {"a", " ", "#", "\n"}
TagValues == UNION {[1..n -> ValueChars] : n \in 0..MaxValueLen}

MarkerText == <<"#", " managed-by: lgpod-inventory">>

\* strings.TrimSpace on a text: blanks and newlines at both ends
RECURSIVE TrimTextLeft(_)
TrimTextLeft(t) == IF t # <<>> /\ Head(t) \in {" ", "\n"} THEN TrimTextLeft(Tail(t)) ELSE t
RECURSIVE TrimTextRight(_)
TrimTextRight(t) ==
    IF t # <<>> /\ t[Len(t)] \in {" ", "\n"} THEN TrimTextRight(SubSeq(t, 1, Len(t) - 1)) ELSE t
TrimText(t) == TrimTextRight(TrimTextLeft(t))

\* content := "# managed-by: lgpod-inventory\n" + strings.TrimSpace(value) + "\n"
tagContent(value) == MarkerText \o <<"\n">> \o TrimText(value) \o <<"\n">>

\* the text before the first newline
UpToNewline(text) ==
    LET ends == {k \in 1..Len(text) : text[k] = "\n"}
    IN IF ends = {} THEN text
       ELSE SubSeq(text, 1, (CHOOSE k \in ends : \A l \in ends : k <= l) - 1)

\* strings.Split(text, "\n")
RECURSIVE SplitLines(_)
SplitLines(text) ==
    LET first == UpToNewline(text)
    IN IF Len(first) = Len(text) THEN <<text>>
       ELSE <<first>> \o SplitLines(SubSeq(text, Len(first) + 2, Len(text)))

\* the loop of loadTags over the lines of one file
RECURSIVE firstValueLine(_)
firstValueLine(lines) ==
    IF lines = <<>> THEN <<>>
    ELSE LET line == TrimText(Head(lines))
         IN IF line = <<>> \/ Head(line) = "#" THEN firstValueLine(Tail(lines))
            ELSE line

loadTagValue(text) == firstValueLine(SplitLines(text))

InitRound ==
    /\ fs = <<>> /\ managed = <<>> /\ tagdir = [tags |-> <<>>, baks |-> <<>>]
    /\ statusFile = <<>>
    /\ repo = {}
    /\ sched = NoSched /\ ctxDone = FALSE
    /\ inv = [readable |-> FALSE, items |-> <<>>]
    /\ render = NoRender
    /\ \E k \in {"group", "site"}, v \in TagValues :
          call = [fn |-> "writeManagedTag", arg |-> <<k, v>>, out |-> <<>>]
    /\ clock = 0 /\ faults = 0
    /\ lastClean = FALSE
    /\ Idle

\* writeManagedTag(tagsDir, key, value) into an empty tags directory
WriteTagCall ==
    /\ call.fn = "writeManagedTag" /\ call.out = <<>>
    /\ call' = [call EXCEPT !.out = <<tagContent(call.arg[2])>>]
    /\ UNCHANGED hashFrame

\* loadTags(tagsDir) afterwards: the value it maps the key to
LoadTagsCall ==
    /\ call.fn = "writeManagedTag" /\ Len(call.out) = 1
    /\ call' = [call EXCEPT !.out = Append(@, loadTagValue(call.out[1]))]
    /\ UNCHANGED hashFrame

NextRound == WriteTagCall \/ LoadTagsCall

SpecRound == InitRound /\ [][NextRound]_vars

(***************************************************************************)
(* config: the durations of the scheduler.  A time.Duration is a signed    *)
(* integer of DurationBits bits; the unit is 30 seconds.                   *)
(***************************************************************************)
DurationBits == 8
MaxDuration == 2^(DurationBits - 1) - 1

\* signed arithmetic that wraps around
Wrap(v) == ((v + 2^(DurationBits - 1)) % 2^DurationBits) - 2^(DurationBits - 1)
\* the quotient of Go, which truncates toward zero
Quo(a, b) == IF a >= 0 THEN a \div b ELSE -((-a) \div b)

\* time.ParseDuration: the value, and whether it returned an error
ParseDuration(str) ==
    CASE str = "15m" -> [d |-> 30, err |-> FALSE]
      [] str = "3m" -> [d |-> 6, err |-> FALSE]
      [] str = "2m30s" -> [d |-> 5, err |-> FALSE]
      [] str = "30s" -> [d |-> 1, err |-> FALSE]
      [] str = "0" -> [d |-> 0, err |-> FALSE]
      [] str = "-3m" -> [d |-> -6, err |-> FALSE]
      [] str = "max" -> [d |-> MaxDuration, err |-> FALSE]
      [] OTHER -> [d |-> 0, err |-> TRUE]

\* config.Load: the defaults of the two strings
Load(intervalStr, jitterStr) ==
    [IntervalStr |-> IF intervalStr = "" THEN "15m" ELSE intervalStr,
     JitterStr |-> IF jitterStr = "" THEN "3m" ELSE jitterStr]

Interval(c) == LET d == ParseDuration(c.IntervalStr).d IN IF d <= 0 THEN 30 ELSE d
Jitter(c) == LET d == ParseDuration(c.JitterStr).d IN IF d < 0 THEN 0 ELSE d

\* n is time.Now().UnixNano()
IntervalWithJitter(c, n) ==
    LET base == Interval(c)
        j == Jitter(c)
        sgn == IF n % 2 = 0 THEN -1 ELSE 1
    IN IF j = 0 THEN base ELSE Wrap(base + Quo(sgn * j, 2))

Configs == {Load(i, j) : i \in {"", "15m", "0", "bogus", "30s", "max"},
                         j \in {"", "3m", "0", "-3m", "2m30s", "bogus"}}

(***************************************************************************)
(* main: the scheduler loop of the long-running mode.                      *)
(***************************************************************************)
MaxRuns == 2

\* go r.RunOnce(...): the loop goes on while the run is in progress
GoRunOnce(s) == [s EXCEPT !.running = @ + 1, !.runs = @ + 1, !.pc = "reset"]

\* r.RunOnce(ctx, *dry, "interval"): the loop is inside the call until it returns
CallRunOnce(s) == [s EXCEPT !.running = @ + 1, !.runs = @ + 1, !.pc = "intervalRun"]

\* a scheduler that gives up when the boot run has failed
AfterBootStrict(err) == IF err THEN "returned" ELSE "newTimer"

\* if err := r.RunOnce(ctx, *dry, "boot"); err != nil { l.Warn(...) }
AfterBoot(err) == "newTimer"

InitSched ==
    /\ fs = <<>> /\ managed = <<>> /\ tagdir = [tags |-> <<>>, baks |-> <<>>]
    /\ statusFile = <<>>
    /\ repo = {}
    /\ inv = [readable |-> FALSE, items |-> <<>>]
    /\ render = NoRender /\ call = NoCall
    /\ \E c \in Configs :
          sched = [pc |-> "boot", cfg |-> c, timer |-> "none", delay |-> 0, running |-> 0,
                   boot |-> "none", warned |-> FALSE, runs |-> 0, arms |-> 0]
    /\ ctxDone = FALSE
    /\ clock = 0 /\ faults = 0
    /\ lastClean = FALSE
    /\ Idle

schedFrame == <<hostVars, auditAppended, repo, inv, render, call, clock, faults, pc, planVars,
                loopVars, snapVars, applyErrs, touched, cmds, oldNode, statusWritten, outcome, faulted>>

\* SIGINT, SIGTERM or SIGHUP arrives
Signal ==
    /\ sched.pc \notin {"off", "returned"}
    /\ ~ctxDone
    /\ ctxDone' = TRUE
    /\ UNCHANGED <<sched, schedFrame>>

BootStart ==
    /\ sched.pc = "boot"
    /\ sched' = [sched EXCEPT !.running = @ + 1, !.pc = "bootRun"]
    /\ UNCHANGED <<ctxDone, schedFrame>>

BootReturn ==
    /\ sched.pc = "bootRun"
    /\ \E err \in BOOLEAN :
          sched' = [sched EXCEPT !.running = @ - 1,
                                 !.boot = IF err THEN "err" ELSE "ok",
                                 !.warned = err,
                                 !.pc = AfterBoot(err)]
    /\ UNCHANGED <<ctxDone, schedFrame>>

\* t := time.NewTimer(cfg.IntervalWithJitter())
NewTimer ==
    /\ sched.pc = "newTimer"
    /\ \E n \in {0, 1} :
          sched' = [sched EXCEPT !.timer = "armed", !.delay = IntervalWithJitter(sched.cfg, n),
                                 !.arms = @ + 1, !.pc = "select"]
    /\ UNCHANGED <<ctxDone, schedFrame>>

\* the delay has passed: a value is in t.C
TimerFires ==
    /\ sched.pc \notin {"off", "returned"}
    /\ sched.timer = "armed"
    /\ sched' = [sched EXCEPT !.timer = "fired"]
    /\ UNCHANGED <<ctxDone, schedFrame>>

\* case <-ctx.Done(): return
SelectDone ==
    /\ sched.pc = "select"
    /\ ctxDone
    /\ sched' = [sched EXCEPT !.pc = "returned"]
    /\ UNCHANGED <<ctxDone, schedFrame>>

\* case <-t.C: when both cases are ready select takes either
SelectTimer ==
    /\ sched.pc = "select"
    /\ sched.timer = "fired"
    /\ sched.runs < MaxRuns
    /\ sched' = CallRunOnce([sched EXCEPT !.timer = "none"])
    /\ UNCHANGED <<ctxDone, schedFrame>>

IntervalReturn ==
    /\ sched.pc = "intervalRun"
    /\ sched' = [sched EXCEPT !.running = @ - 1, !.pc = "reset"]
    /\ UNCHANGED <<ctxDone, schedFrame>>

\* t.Reset(cfg.IntervalWithJitter())
Reset ==
    /\ sched.pc = "reset"
    /\ \E n \in {0, 1} :
          sched' = [sched EXCEPT !.timer = "armed", !.delay = IntervalWithJitter(sched.cfg, n),
                                 !.arms = @ + 1, !.pc = "select"]
    /\ UNCHANGED <<ctxDone, schedFrame>>

NextSched ==
    \/ Signal \/ BootStart \/ BootReturn \/ NewTimer \/ TimerFires
    \/ SelectDone \/ SelectTimer \/ IntervalReturn \/ Reset

SpecSched == InitSched /\ [][NextSched]_vars

(***************************************************************************)
(* Properties of RunOnce.                                                  *)
(***************************************************************************)
ApplyPcs == {"mkdir", "open", "write", "chmod", "rename"}
Changed(f, g) == {q \in DOMAIN f \cup DOMAIN g : NodeAt(f, q) # NodeAt(g, q)}
Deleted(f, g) == DOMAIN f \ DOMAIN g

\* the four allow-listed prefixes, as the specification lists them
AllowList == { <<"/etc/polkit-1/rules.d/", "60-lgpo-">>,
               <<"/etc/dconf/db/local.d/", "60-lgpo-">>,
               <<"/etc/dconf/db/local.d/", "locks/", "60-lgpo-">>,
               <<"/etc/modprobe.d/", "60-lgpo-">> }
UnderAllowList(path) == \E pre \in AllowList : HasPrefix(path, pre)

C2_DriftCleanup ==
    /\ (pc = "done" /\ ~dry) =>
          \A i \in 1..Len(prev) :
             (UnderAllowList(prev[i]) /\ prev[i] \notin desiredPaths) => ~Exists(fs, prev[i])
    /\ pc = "failed" =>
          \A i \in 1..Len(managed0) : NodeAt(fs, managed0[i]) = NodeAt(fs0, managed0[i])

\* C3 (as stated): a file that is not in the managed set loaded at the start
\* of the run is never deleted by the run.
C3_DeleteOnlyManaged ==
    pc # "idle" => \A q \in Deleted(fs0, fs) : q \in Range(managed0)

\* C3 (amended): a file the run deletes is in the managed set loaded at its
\* start, or is the temporary neighbour <target>.lgpo-tmp of a target the
\* run applies; any other file, allow-listed or not, survives the run.
C3_DeleteOnlyManagedOrTemp ==
    pc # "idle" =>
       \A q \in Deleted(fs0, fs) :
          \/ q \in Range(managed0)
          \/ \E i \in 1..Len(toApply) : q = TmpOf(toApply[i].path)

\* a non-dry run deleted a managed artifact and left the unmanaged file
\* under an allow-listed directory alone
C3_Witness ==
    /\ pc = "done" /\ ~dry
    /\ \E q \in Deleted(fs0, fs) : q \in Range(managed0)
    /\ \E q \in DOMAIN fs0 : UnderAllowList(q) /\ q \notin Range(managed0) /\ Exists(fs, q)

\* C4: a successful non-dry run that directly follows a successful non-dry
\* run, the repository, the tags and the files unchanged in between,
\* changes nothing.
C4_Idempotent ==
    (pc = "done" /\ ~dry /\ ~faulted /\ prevClean) => (changed = 0 /\ fs = fs0)

\* a step taken inside applyAtomic leaves the target as applyAtomic found it
\* or holding the complete new content with the final mode
TargetKept ==
    pc \in ApplyPcs =>
       LET it == toApply[idx]
       IN /\ NodeAt(fs, it.path) = oldNode
          /\ NodeAt(fs', it.path) \in {oldNode, File(it.data, it.mode)}

\* C5: at every step of applyAtomic the target holds either what it held
\* when applyAtomic began or the complete new content with the final mode;
\* it is never partial, never empty, never in the temporary file's mode.
C5_AtomicReplace == [][TargetKept]_vars

\* an existing target is being replaced: the temporary file is still empty
\* and in mode 0600, the content to write is not empty
C5_Witness ==
    /\ pc = "write"
    /\ Exists(fs, toApply[idx].path)
    /\ toApply[idx].data # <<>>
    /\ fs[toApply[idx].path].data # toApply[idx].data
    /\ NodeAt(fs, TmpOf(toApply[idx].path)) = File(<<>>, ModeTmp)

\* C6: every call of a renderer on the same policy returns the same bytes.
C6_RenderDeterministic ==
    \A i, j \in 1..Len(render.out) : render.out[i] = render.out[j]

\* C7: when the repository was synced over SSH with the device key and the
\* push probe shows the key may write, Ensure returns an error and the run
\* plans nothing and writes or deletes nothing; a run that goes on after a
\* sync over SSH has seen the probe denied.
C7_ReadOnlyEnforced ==
    /\ (ens.sshSynced /\ ens.probed = "permitted") =>
          /\ ens.err # "" /\ pc = "failed"
          /\ toApply = <<>> /\ touched = {} /\ cmds = <<>>
          /\ fs = fs0 /\ managed = managed0
    /\ (ens.sshSynced /\ pc = "synced") => ens.probed = "denied"

\* the sync over SSH worked and the dry-run push was accepted
C7_Witness ==
    pc = "failed" /\ ens.sshSynced /\ ens.probed = "permitted"

\* the target paths a policy file would contribute
TargetsOf(p) ==
    CASE p.kind = "PolkitPolicy" -> {PolkitTarget(p.name)}
      [] p.kind = "DconfPolicy" -> Range(TargetPaths(p.name))
      [] OTHER -> {TargetPath(p.name)}

\* C8: a policy of any kind whose name does not match the name pattern
\* contributes no target path to the plan.
C8_NameValidated ==
    pc \notin {"idle", "synced", "failed"} =>
       \A i \in repo :
          ~reNameMatch(PolicyFiles[i].name) =>
             TargetsOf(PolicyFiles[i]) \cap desiredPaths = {}

\* C9: a dry run changes no file on the host: no artifact, no managed
\* state file, no tag file, and it runs no post-step command.
C9_DryRunFrame ==
    (pc # "idle" /\ dry) =>
       /\ fs = fs0 /\ managed = managed0 /\ tagdir = tagdir0
       /\ cmds = <<>>

\* C10: every invocation of RunOnce, when it returns, has appended exactly
\* one audit record and rewritten the status file.
C10_AuditAndStatus ==
    pc \in {"done", "failed"} => (auditAppended = 1 /\ statusWritten)

\* C11: when git.Ensure returns an error, RunOnce returns that error and
\* in that run plans no policy, writes or deletes no artifact and no tag
\* file, runs no post-step command and leaves managed.json as it was.
C11_SyncFailureFrame ==
    ens.err # "" =>
       /\ pc = "failed" /\ outcome = ens.err
       /\ toApply = <<>> /\ lastTags = <<>> /\ prev = <<>>
       /\ touched = {} /\ cmds = <<>>
       /\ fs = fs0 /\ tagdir = tagdir0 /\ managed = managed0

\* the sync failed on a host where a run would have had work to do: a
\* managed artifact to remove and policies to apply
C11_Witness ==
    /\ pc = "failed" /\ ens.err = "sync"
    /\ managed # <<>> /\ repo # {}
    /\ \E i \in 1..Len(managed) : Exists(fs, managed[i])

\* what the specification says Match returns: the hostnameRegex, compiled
\* anchored, matches the hostname fact; every selector fact is present and
\* equal; every selector tag is a string equal to the tag or a list holding it
SelectorHolds(sel, ctx) ==
    /\ \/ sel.hostnameRegex = ""
       \/ /\ Compiles(sel.hostnameRegex)
          /\ Chars(sel.hostnameRegex) = Chars(MapGet(ctx.facts, "hostname"))
    /\ \A k \in DOMAIN sel.facts : k \in DOMAIN ctx.facts /\ ctx.facts[k] = sel.facts[k]
    /\ \A k \in DOMAIN sel.tags :
          LET v == sel.tags[k]
          IN \/ v.shape = "string" /\ MapGet(ctx.tags, k) = v.str
             \/ v.shape = "list" /\ \E i \in 1..Len(v.items) : MapGet(ctx.tags, k) = v.items[i]

\* C12: Match returns true exactly when the selector holds as the
\* specification defines it, and false otherwise, a hostnameRegex that does
\* not compile included.
C12_SelectorCorrect ==
    (call.fn = "Match" /\ call.out # <<>>) =>
       call.out[1] = (IF SelectorHolds(call.arg[1], call.arg[2]) THEN "true" ELSE "false")

\* C13: no policy file makes RunOnce return an error or end the process:
\* a run whose sync succeeded goes on to the status and the audit record,
\* and the files that are in order are planned whatever else the directory holds.
C13_PolicyErrorsContained ==
    /\ pc # "panicked"
    /\ pc \in {"remove", "apply", "record", "done"} \cup ApplyPcs =>
          \A i \in repo :
             LET e == Evaluate(PolicyFiles[i], [facts |-> Facts, tags |-> lastTags], clock)
             IN \A j \in 1..Len(e.items) : e.items[j].path \in desiredPaths

\* C14: for a fixed private key file every run computes the same
\* fingerprint, whatever else is on the host.
C14_FingerprintStable ==
    call.fn = "DeviceHash" =>
       \A i, j \in 1..Len(call.out) :
          /\ call.out[i].err = call.out[j].err
          /\ call.out[i].hash = call.out[j].hash

\* the call of SyncInventoryTags has returned
TagsReturned == call.fn = "SyncInventoryTags" /\ call.out # <<>>
\* the entry of the inventory the device matches, 0 when there is none
MatchedAt(i) == IF i.readable THEN FirstMatch(i.items, DeviceHash) ELSE 0

\* C15: after SyncInventoryTags returned without error for a device that
\* matches entry E, <k>.tag is the marker line and E.tags[k] for every
\* non-blank key k, identity.tag is the marker line and E.identity when that
\* is set, and no managed tag file is left under another key.
C15_TagsReconciled ==
    (TagsReturned /\ ~call.out[1].err /\ MatchedAt(call.arg[1]) # 0) =>
       LET e == call.arg[1].items[MatchedAt(call.arg[1])]
           t == call.out[1].dir.tags
           keys == DOMAIN e.tags \ {""}
       IN /\ \A k \in keys : k \in DOMAIN t /\ t[k] = <<Marker, e.tags[k]>>
          /\ e.identity # "" =>
                ("identity" \in DOMAIN t /\ t["identity"] = <<Marker, e.identity>>)
          /\ \A k \in DOMAIN t : IsManagedTag(t[k]) => k \in keys \cup {"identity"}

Unmanaged(dir) == {k \in DOMAIN dir.tags : ~IsDir(dir.tags[k]) /\ ~IsManagedTag(dir.tags[k])}

\* C17 (as stated): a tag file without the marker is never deleted, and when
\* it is overwritten its previous content is in <key>.tag.bak afterwards.
C17_UnmanagedKept ==
    TagsReturned =>
       \A k \in Unmanaged(call.arg[2]) :
          LET before == call.arg[2]
              after == call.out[1].dir
          IN /\ k \in DOMAIN after.tags
             /\ after.tags[k] # before.tags[k] =>
                   (k \in DOMAIN after.baks /\ after.baks[k] = before.tags[k])

\* C17 (amended): a tag file without the marker is never deleted, and when
\* it is overwritten its previous content is in <key>.tag.bak afterwards
\* unless that name could not be written (it is a directory): the backup is
\* best-effort and its failure does not stop the overwrite.
C17_UnmanagedKeptBestEffort ==
    TagsReturned =>
       \A k \in Unmanaged(call.arg[2]) :
          LET before == call.arg[2]
              after == call.out[1].dir
          IN /\ k \in DOMAIN after.tags
             /\ after.tags[k] # before.tags[k] =>
                   \/ k \in DOMAIN after.baks /\ after.baks[k] = before.tags[k]
                   \/ k \in DOMAIN before.baks /\ IsDir(before.baks[k])

\* an admin's group.tag was overwritten by the inventory's value, over an
\* older backup, and group.tag.bak now holds the admin's content; another
\* unmanaged file was left alone
C17_Witness ==
    /\ TagsReturned
    /\ "group" \in Unmanaged(call.arg[2])
    /\ "group" \in DOMAIN call.arg[2].baks /\ call.arg[2].baks["group"] = <<"older">>
    /\ IsManagedTag(call.out[1].dir.tags["group"])
    /\ call.out[1].dir.baks["group"] = call.arg[2].tags["group"]
    /\ "site" \in Unmanaged(call.arg[2])
    /\ call.out[1].dir.tags["site"] = call.arg[2].tags["site"]

\* one of the four forbidden substrings occurs in the text
HasForbidden(text) ==
    \E i \in 1..Len(text) : text[i] \in {"eval(", "Function(", "require(", "import("}

\* C18: what polkit.Render returns never holds eval(, Function(, require(
\* or import(; for a policy whose text would hold one Render returns an
\* error and RunOnce plans no artifact for it, and none is written.
C18_ForbiddenRefused ==
    pc \in {"remove", "apply", "record", "done"} \cup ApplyPcs =>
       /\ \A i \in repo :
             LET p == PolicyFiles[i]
             IN p.kind = "PolkitPolicy" =>
                   /\ ~PolkitRender(p).err => ~HasForbidden(PolkitRender(p).data)
                   /\ (PolkitValidate(p) /\ HasForbidden(PolkitJS(p))) =>
                         /\ PolkitRender(p).err
                         /\ PolkitTarget(p.name) \notin desiredPaths
                         /\ NodeAt(fs, PolkitTarget(p.name)) = NodeAt(fs0, PolkitTarget(p.name))
       /\ \A j \in 1..Len(toApply) : ~HasForbidden(toApply[j].data)
       /\ \A q \in Changed(fs0, fs) : Exists(fs, q) => ~HasForbidden(fs[q].data)

\* a non-dry run over a valid policy whose unit_prefix carries eval( next
\* to a policy in order: the first is left out, the second is written
C18_Witness ==
    /\ pc = "done" /\ ~dry /\ repo = {6, 10}
    /\ PolkitValidate(PolicyFiles[10]) /\ HasForbidden(PolkitJS(PolicyFiles[10]))
    /\ PathsOf(toApply) = <<PolkitTarget(NameFoo)>>
    /\ ~Exists(fs, PolkitTarget(PolicyFiles[10].name))
    /\ Exists(fs, PolkitTarget(NameFoo)) /\ fs[PolkitTarget(NameFoo)].data = toApply[1].data

\* the module names of the blacklist lines of a modprobe artifact, in order
RECURSIVE NameUpTo(_)
NameUpTo(text) ==
    IF text = <<>> \/ Head(text) = "\n" THEN <<>> ELSE <<Head(text)>> \o NameUpTo(Tail(text))
RECURSIVE BlacklistLines(_)
BlacklistLines(text) ==
    IF text = <<>> THEN <<>>
    ELSE IF Head(text) = "blacklist " THEN <<NameUpTo(Tail(text))>> \o BlacklistLines(Tail(text))
    ELSE BlacklistLines(Tail(text))

LowerCased(m) == [i \in 1..Len(m) |-> IF m[i] = "USB" THEN "usb" ELSE m[i]]
WithUnderscores(m) == [i \in 1..Len(m) |-> IF m[i] = "-" THEN "_" ELSE m[i]]
WithHyphens(m) == [i \in 1..Len(m) |-> IF m[i] = "_" THEN "-" ELSE m[i]]
BothForms(names) ==
    UNION {{WithUnderscores(LowerCased(names[i])), WithHyphens(LowerCased(names[i]))} :
             i \in 1..Len(names)}
Strip(m) == SelectSeq(m, LAMBDA t : t # " ")

\* the rendered list is exactly the two forms of the given names, each once, ascending
Canonical(p, out, names) ==
    (p.kind = "ModprobePolicy" /\ ~out.err) =>
       LET mods == BlacklistLines(out.bytes[1])
       IN /\ Range(mods) = BothForms(names)
          /\ \A i \in 1..(Len(mods) - 1) : StrLess(mods[i], mods[i + 1])

UpTo(text, stops) ==
    LET ends == {k \in 1..Len(text) : text[k] \in stops}
        end == IF ends = {} THEN Len(text) + 1
               ELSE CHOOSE k \in ends : \A l \in ends : k <= l
    IN SubSeq(text, 1, end - 1)
Fields(text, start, stops) ==
    LET starts == {i \in 1..Len(text) : text[i] = start}
        nth(n) == CHOOSE i \in starts : Cardinality({j \in starts : j < i}) = n - 1
    IN [n \in 1..Cardinality(starts) |-> UpTo(SubSeq(text, nth(n) + 1, Len(text)), stops)]

\* the keys of the lines key=value of one section body
RECURSIVE KeysOf(_)
KeysOf(body) ==
    IF body = <<>> \/ Head(body) = "\n" THEN <<>>
    ELSE LET key == UpTo(body, {"="})
             rest == SubSeq(body, Len(key) + 4, Len(body))
         IN <<key>> \o KeysOf(rest)

Ascending(names) == \A i \in 1..(Len(names) - 1) : StrLess(names[i], names[i + 1])
NonDecreasing(names) == \A i \in 1..(Len(names) - 1) : ~StrLess(names[i + 1], names[i])

\* the names in the order of the artifact are those of the policy
SameNames(names, given) ==
    /\ Len(names) = Len(given)
    /\ \A n \in Range(given) :
          Cardinality({i \in 1..Len(names) : names[i] = n})
             = Cardinality({i \in 1..Len(given) : given[i] = n})

\* C20: in a polkit artifact the rule blocks stand in non-decreasing order
\* of rule name whatever their order in the policy; in a dconf settings
\* artifact the sections, and the keys of each section, stand in ascending
\* order; in a modprobe artifact the blacklist lines stand in ascending
\* order of module name.
C20_OrderingStable ==
    \A k \in 1..Len(render.out) :
       LET p == RenderInputs[render.file]
           out == render.out[k]
       IN ~out.err =>
             CASE p.kind = "PolkitPolicy" ->
                    LET blocks == Fields(out.bytes[1], "\n  // ---- ", {" ----\n"})
                    IN /\ NonDecreasing(blocks)
                       /\ SameNames(blocks, [i \in 1..Len(p.spec.rules) |-> p.spec.rules[i].name])
               [] p.kind = "DconfPolicy" ->
                    LET sections == Fields(out.bytes[1], "[", {"]\n"})
                        bodies == Fields(out.bytes[1], "]\n", {"["})
                    IN /\ Ascending(sections)
                       /\ Range(sections) = DOMAIN p.spec.settings
                       /\ Len(bodies) = Len(sections)
                       /\ \A i \in 1..Len(bodies) :
                             /\ Ascending(KeysOf(bodies[i]))
                             /\ Range(KeysOf(bodies[i])) = DOMAIN p.spec.settings[sections[i]]
               [] OTHER ->
                    LET mods == BlacklistLines(out.bytes[1])
                    IN Ascending(mods) /\ mods # <<>>

\* a policy that lists its rules foo, b, a, b has been rendered as a, b, b, foo
C20_Witness ==
    /\ Len(render.out) > 0 /\ ~render.out[1].err
    /\ RenderInputs[render.file].kind = "PolkitPolicy"
    /\ [i \in 1..Len(RenderInputs[render.file].spec.rules) |->
           RenderInputs[render.file].spec.rules[i].name] = << <<"foo">>, <<"b">>, <<"a">>, <<"b">> >>
    /\ Fields(render.out[1].bytes[1], "\n  // ---- ", {" ----\n"})
          = << <<"a">>, <<"b">>, <<"b">>, <<"foo">> >>

\* the artifacts of the plan whose target differs from their content on host f
WouldReplace(f) ==
    {j \in 1..Len(toApply) : ~(Exists(f, toApply[j].path) /\ f[toApply[j].path].data = toApply[j].data)}

\* the targets the apply loop has renamed a temp file onto
Replaced == {t \in touched : t.op = "rename" /\ t.by = "apply"}

\* C21: the status written at the end of a RunOnce has changed equal to the
\* number of artifacts whose target was replaced in the run (would be
\* replaced, in a dry run) and failed equal to the number of artifacts whose
\* applyAtomic returned an error in the run.
C21_StatusCounts ==
    pc = "done" =>
       /\ statusFile # <<>>
       /\ statusFile[1].changed = (IF dry THEN Cardinality(WouldReplace(fs0)) ELSE Cardinality(Replaced))
       /\ statusFile[1].failed = applyErrs

\* C22: a RunOnce of the scheduler starts only when no RunOnce of it is
\* in progress, whenever the timer expires and however long a run takes.
C22_NoConcurrentRuns ==
    [][sched.pc # "off" /\ sched'.running > sched.running => sched.running = 0]_vars

\* the second interval run is in progress, alone
C22_Witness ==
    /\ sched.pc = "intervalRun" /\ sched.runs = 2 /\ sched.running = 1

\* the scheduler arms no timer and starts no run in this step
NoArmNoStart == sched'.arms = sched.arms /\ sched'.runs = sched.runs

\* C23: once the cancellation signal has fired the scheduler starts no
\* further reconciliation and arms no timer before it returns.
C23_StopsOnSignal ==
    [][(sched.pc # "off" /\ ctxDone) => NoArmNoStart]_vars

\* C25: the boot run has returned before any timer is armed; when it
\* returned an error the scheduler has logged it, arms the timer all the
\* same and returns only on cancellation.
C25_BootFirst ==
    sched.pc # "off" =>
       /\ sched.arms > 0 => sched.boot # "none"
       /\ sched.pc \in {"boot", "bootRun"} => (sched.timer = "none" /\ sched.runs = 0)
       /\ sched.boot = "err" =>
             /\ sched.warned
             /\ sched.pc # "newTimer" => sched.arms > 0
             /\ sched.pc = "returned" => ctxDone

\* the boot run failed and an interval run is in progress
C25_Witness ==
    /\ sched.pc = "intervalRun" /\ sched.boot = "err" /\ sched.warned /\ sched.runs = 1

\* the interval and jitter of the configuration, as integers without a width
IntervalOf(c) == IF c.IntervalStr = "15m" THEN 30
                 ELSE IF c.IntervalStr = "30s" THEN 1
                 ELSE IF c.IntervalStr = "max" THEN 2^(DurationBits - 1) - 1
                 ELSE 30
JitterOf(c) == IF c.JitterStr = "3m" THEN 6 ELSE IF c.JitterStr = "2m30s" THEN 5 ELSE 0

\* C26: every delay the scheduler arms lies in [interval - jitter/2,
\* interval + jitter/2]; with jitter 0 it is interval, and with interval 15m
\* and jitter 3m it is 13m30s or 16m30s.
C26_JitterBounds ==
    (sched.pc # "off" /\ sched.arms > 0) =>
       LET i == IntervalOf(sched.cfg)
           j == JitterOf(sched.cfg)
       IN /\ 2 * i - j <= 2 * sched.delay /\ 2 * sched.delay <= 2 * i + j
          /\ j = 0 => sched.delay = i
          /\ (sched.cfg.IntervalStr = "15m" /\ sched.cfg.JitterStr = "3m") => sched.delay \in {27, 33}

\* this step writes or deletes no file, starts no command and does not
\* persist the managed set
NothingFurther ==
    /\ fs' = fs /\ managed' = managed /\ cmds' = cmds

\* C24: once the context is cancelled while RunOnce is in progress, RunOnce
\* starts no further artifact write, deletion or child process and does not
\* persist the managed set.
C24_CancelStopsRun ==
    [][(ctxDone /\ pc \notin {"idle", "done", "failed", "panicked"}) => NothingFurther]_vars

\* applyAtomic returns an error in this step, the temp file having been created
FailsAfterTmp == pc \in {"write", "chmod", "rename"} /\ applyErrs' = applyErrs + 1

\* C27: when applyAtomic returns an error after it has created or started
\* writing <target>.lgpo-tmp, the temp file no longer exists, the target is
\* unchanged, and the apply loop goes on with the next artifact.
C27_TmpCleanedUp ==
    [][FailsAfterTmp =>
          /\ ~Exists(fs', toApply[idx].path \o <<".lgpo-tmp">>)
          /\ NodeAt(fs', toApply[idx].path) = oldNode
          /\ pc' = "apply" /\ idx' = idx + 1]_vars

\* C28: status.json and managed.json hold at every instant the complete
\* previous document or the complete new one, and loadManaged returns the
\* items of the document managed.json held when the run began.
C28_CrashSafe ==
    /\ managed # Truncated
    /\ statusFile # Truncated
    /\ pc \in {"remove", "apply"} => prev = managed0

\* the target paths of the artifacts planned in the run
Planned == {toApply[j].path : j \in 1..Len(toApply)}

DconfUpdates == {k \in 1..Len(cmds) : Len(cmds[k]) >= 2 /\ cmds[k][1] = "dconf" /\ cmds[k][2] = "update"}

\* the removal loop or the apply loop wrote or removed a file under /etc/dconf/db/local.d/
LocalDTouched ==
    \E t \in touched : t.by \in {"drift", "apply"} /\ Len(t.path) > 0
                       /\ t.path[1] = "/etc/dconf/db/local.d/"

PastPostSteps ==
    pc \in {"record", "saving", "status", "statusw", "done"} /\ ~dry /\ ~faulted /\ ~ctxDone

\* all the run did to the host is delete files under /etc/modprobe.d/ in the removal loop
OnlyModprobeRemovals ==
    /\ touched # {}
    /\ \A t \in touched : t.by = "drift" /\ t.op = "delete" /\ t.path[1] = "/etc/modprobe.d/"

\* C31: a non-dry RunOnce whose only effect is the removal of files under
\* /etc/modprobe.d/ counts them in removed and invokes neither
\* update-initramfs nor modprobe -r; the removal of a file under
\* /etc/dconf/db/local.d/ does invoke dconf update.
C31_PureRemoval ==
    PastPostSteps =>
       /\ OnlyModprobeRemovals =>
             /\ removed = Cardinality(touched)
             /\ \A k \in 1..Len(cmds) : cmds[k][1] \notin {"update-initramfs", "modprobe"}
       /\ (\E t \in touched : t.by = "drift" /\ t.op = "delete" /\ t.path[1] = "/etc/dconf/db/local.d/")
             => DconfUpdates # {}

\* C37: a non-dry RunOnce that writes no artifact and removes no file
\* (changed = 0 and removed = 0) invokes no post-step command.
C37_NoOpNoPostStep ==
    (PastPostSteps /\ changed = 0 /\ removed = 0) => cmds = <<>>

\* the last call of git.Ensure started a sync over SSH with the device key
SSHTried == \E k \in 1..Len(call.out[1].calls) : call.out[1].calls[k] = "ssh"

\* C32: Ensure starts a sync over SSH with the device key exactly when the
\* remote is an SSH URL or the HTTPS sync failed with an auth-class error: a
\* failure that is not auth-class is returned without an SSH attempt, and an
\* auth-class failure leads to an SSH attempt for every HTTPS remote.
C32_SSHFallback ==
    (call.fn = "Ensure" /\ call.out # <<>>) =>
       LET a == call.out[1].arg
       IN SSHTried <=> (isSSHURL(a[1]) \/ (~isSSHURL(a[1]) /\ isAuthError(a[2])))

\* the text of each rule of a polkit artifact, from its name to the next rule
RuleTexts(js) ==
    Fields(js, "\n  // ---- ", {"\n  // ---- ", "\n  // fallthrough: not handled\n});\n"})

\* the fall-through clauses that a rule calls for: one for each match that
\* sets action_prefix, in the order of the matches, returning default_result
FallThroughsOf(r) ==
    IF r.defaultResult = "nil" THEN <<>>
    ELSE LET ms == SelectSeq(r.matches, LAMBDA m : m.actionPrefix # <<>>)
         IN [i \in 1..Len(ms) |->
                jsString(ms[i].actionPrefix) \o <<") === 0) return ", ResultJS(r.defaultResult)>>]

\* the positions of a token in a text
At(text, tok) == {i \in 1..Len(text) : text[i] = tok}

C34_FailedDeletionKept ==
    (pc = "done" /\ ~dry) =>
       \A i \in 1..Len(prev) :
          (allowed(prev[i]) /\ prev[i] \notin desiredPaths /\ Exists(fs, prev[i]))
             => prev[i] \in Range(managed)

\* the complete bytes of the artifacts that were or are to be at the target
CompleteBytes ==
    {call.arg[p].data : p \in Procs} \cup {Stale.data, ModprobeRender(PolicyFiles[4], 0).data}

\* C35: while two agent processes apply the same target, the target, when
\* it exists, holds the complete bytes of a rendered artifact, and no
\* process finds the file it has still to write standing under the name of
\* the target.
C35_ConcurrentApply ==
    call.fn = "applyAtomic" =>
       /\ Exists(fs, TargetPath(NameFoo)) => fs[TargetPath(NameFoo)].data \in CompleteBytes
       /\ \A p \in Procs : ~(call.out[p].pc = "write" /\ call.out[p].file = "target")

\* C36: the plan of a run holds no two artifacts with the same target path
\* and different bytes.
C36_UniqueTargets ==
    pc \in {"remove", "apply", "mkdir", "open", "write", "chmod", "rename", "post"} =>
       \A i, j \in 1..Len(toApply) :
          toApply[i].path = toApply[j].path => toApply[i].data = toApply[j].data

\* the files of the repository that the walk skips because Render returns an error
Skipped == {i \in repo : RenderOf(PolicyFiles[i], clock).err}

\* C38: when a non-dry run has completed without an I/O failure, the
\* artifact that an earlier run installed for a policy file which the
\* current run skips (its rendering fails) is as it was before the run, and
\* its path is still in the managed set.
C38_SkipKeepsArtifact ==
    (pc = "done" /\ ~dry /\ ~faulted /\ ~ctxDone) =>
       \A i \in Skipped : \A t \in TargetsOf(PolicyFiles[i]) :
          (t \in Range(managed0) /\ Exists(fs0, t) /\ t \notin Planned)
             => /\ NodeAt(fs, t) = NodeAt(fs0, t)
                /\ t \in Range(managed)

\* C39: with an interval above zero and a jitter of zero or more, every
\* delay the scheduler arms its timer with is above zero.
C39_DelayPositive ==
    (sched.pc # "off" /\ sched.arms > 0 /\ Interval(sched.cfg) > 0 /\ Jitter(sched.cfg) >= 0)
       => sched.delay > 0

\* C40: after writeManagedTag(tagsDir, k, v), loadTags(tagsDir) maps k to
\* the whitespace-trimmed v, whatever v is, and the marker line is no part
\* of the loaded value.
C40_TagRoundTrip ==
    (call.fn = "writeManagedTag" /\ Len(call.out) = 2) =>
       /\ call.out[2] = TrimText(call.arg[2])
       /\ \A i \in 1..Len(call.out[2]) : call.out[2][i] # MarkerText[2]

====
